---- MODULE Spec2Model ----
(***************************************************************************)
(* Verification model of pyo3-antelope-rs (python side, antelope_rs.abi):  *)
(* the schema validator, the namespace builder's codec pipelines, the      *)
(* struct / variant codec runtime and the schema fingerprint.              *)
(*                                                                         *)
(* A type-name string is modelled as its identifier plus the list of its   *)
(* modifier suffixes in textual order, so "uint8?[]" is                    *)
(* [id |-> "uint8", sfx |-> <<"?", "[]">>].  Bytes are naturals 0..255.    *)
(***************************************************************************)
EXTENDS Integers, Sequences, FiniteSets, TLC

VARIABLES
    defn,   \* the schema handed to validate_definition
    vres,   \* outcome of validate_definition, Pending before the call
    pc,     \* how far the client of the generated type has got
    gtype,  \* name of the generated type in use
    value,  \* a value of gtype
    rawbuf, \* a byte buffer handed to gtype.from_bytes
    encoded, \* value.encode()
    decoded, \* outcome of gtype.from_bytes
    builtins, \* value.to_builtins()
    converted, \* outcome of gtype.try_from(builtins)
    packed, \* the reference encoding of builtins
    hdefs,  \* the two schemas whose fingerprints are compared
    digests, \* their hash() results
    module, \* the namespace object that build_struct_namespace publishes into
    bld     \* per caller of build_struct_namespace: its position and local variables

vars == <<defn, vres, pc, gtype, value, rawbuf, encoded, decoded, builtins, converted, packed,
          hdefs, digests, module, bld>>
hashVars == <<hdefs, digests>>
buildVars == <<module, bld>>
codecVars == <<pc, gtype, value, rawbuf, encoded, decoded, builtins, converted, packed>>

----------------------------------------------------------------------------
(* Bounds of the schema families explored by the validator specification.  *)
MaxAliases == 2
MaxFields == 3

----------------------------------------------------------------------------
(* Generic helpers                                                         *)

TN(id, sfx) == [id |-> id, sfx |-> sfx]
T0(id) == TN(id, <<>>)

SeqsUpTo(S, n) == UNION {[1..k -> S] : k \in 0..n}

Last(s) == s[Len(s)]
Front(s) == SubSeq(s, 1, Len(s) - 1)

Min(S) == CHOOSE x \in S : \A y \in S : x <= y

----------------------------------------------------------------------------
(* Validation errors                                                       *)

Err(e, x, y, ch) == [err |-> e, x |-> x, y |-> y, chain |-> ch]
Ok == Err("ok", "", "", <<>>)
Pending == Err("pending", "", "", <<>>)

UndefinedTypeError(where, typename) == Err("UndefinedTypeError", where, typename, <<>>)
DuplicateNameError(kind, name) == Err("DuplicateNameError", kind, name, <<>>)
ExtensionOrderError(struct, field) == Err("ExtensionOrderError", struct, field, <<>>)
BaseExtensionFieldError(base, field) == Err("BaseExtensionFieldError", base, field, <<>>)
CyclicAliasError(chain) == Err("CyclicAliasError", "", "", chain)
\* by_name[base] on a base that names no struct
KeyError(key) == Err("KeyError", "", key, <<>>)

----------------------------------------------------------------------------
(* Validator                                                               *)

\* the builtin type names (a representative part of the table)
builtin_types == {"uint8", "uint16"}

AliasNames(d) == {d.types[i].new_type_name : i \in DOMAIN d.types}
StructNames(d) == {d.structs[i].name : i \in DOMAIN d.structs}
VariantNames(d) == {d.variants[i].name : i \in DOMAIN d.variants}

_collect_defined(d) ==
    builtin_types \cup AliasNames(d) \cup StructNames(d) \cup VariantNames(d)

\* first loop of _bare: drop trailing "?" and "$"
RECURSIVE StripOptExt(_)
StripOptExt(sfx) ==
    IF sfx # <<>> /\ Last(sfx) \in {"?", "$"}
    THEN StripOptExt(Front(sfx))
    ELSE sfx

\* second loop of _bare: drop trailing "[]"
RECURSIVE StripArr(_)
StripArr(sfx) ==
    IF sfx # <<>> /\ Last(sfx) = "[]"
    THEN StripArr(Front(sfx))
    ELSE sfx

_bare(t) == TN(t.id, StripArr(StripOptExt(t.sfx)))

\* `_bare(t) in defined`: the stripped string is a defined name
InDefined(t, defined) == _bare(t).sfx = <<>> /\ t.id \in defined

\* fld.type_.endswith('$')
EndsWithExt(t) == t.sfx # <<>> /\ Last(t.sfx) = "$"

\* the (kind, name) pairs in the order _check_duplicates visits them
DeclList(d) ==
    [i \in DOMAIN d.types |-> [kind |-> "type", name |-> d.types[i].new_type_name]]
    \o [i \in DOMAIN d.structs |-> [kind |-> "struct", name |-> d.structs[i].name]]
    \o [i \in DOMAIN d.variants |-> [kind |-> "variant", name |-> d.variants[i].name]]

_check_duplicates(d) ==
    LET decls == DeclList(d)
        dups == {i \in DOMAIN decls : \E j \in 1..(i - 1) : decls[j].name = decls[i].name}
    IN  IF dups = {} THEN Ok
        ELSE LET i == Min(dups)
                 j == CHOOSE j \in 1..(i - 1) : decls[j].name = decls[i].name
             IN  DuplicateNameError(decls[j].kind, decls[i].name)

_check_alias_targets(d, defined) ==
    LET bad == {i \in DOMAIN d.types : ~InDefined(d.types[i].type_, defined)}
    IN  IF bad = {} THEN Ok
        ELSE UndefinedTypeError(d.types[Min(bad)].new_type_name, d.types[Min(bad)].type_.id)

\* graph = {a.new_type_name: _bare(a.type_)}: a later declaration of a name
\* overwrites the target
GraphTarget(d, name) ==
    LET idx == {i \in DOMAIN d.types : d.types[i].new_type_name = name}
    IN  _bare(d.types[CHOOSE i \in idx : \A j \in idx : j <= i].type_)

\* `node in graph`
InGraph(d, node) == node.sfx = <<>> /\ node.id \in AliasNames(d)

InPath(path, id) == \E k \in DOMAIN path : path[k] = id

\* the while loop of _detect_alias_cycles for one root
RECURSIVE WalkAlias(_, _, _)
WalkAlias(d, path, node) ==
    IF ~InGraph(d, node) THEN Ok
    ELSE IF InPath(path, node.id) THEN CyclicAliasError(Append(path, node.id))
    ELSE WalkAlias(d, Append(path, node.id), GraphTarget(d, node.id))

\* roots are visited in the dict's key order: first declaration of each name
_detect_alias_cycles(d) ==
    LET bad == {i \in DOMAIN d.types :
                   WalkAlias(d, <<>>, T0(d.types[i].new_type_name)) # Ok}
    IN  IF bad = {} THEN Ok
        ELSE WalkAlias(d, <<>>, T0(d.types[Min(bad)].new_type_name))

\* FieldErr without the `elif seen_ext` branch
FieldErr_NoOrderCheck(s, k, defined) ==
    IF ~InDefined(s.fields[k].type_, defined)
    THEN UndefinedTypeError(s.name, s.fields[k].type_.id)
    ELSE Ok

\* the body of the field loop of _check_structs for field k of struct s
FieldErr(s, k, defined) ==
    LET fld == s.fields[k]
        seen_ext == \E j \in 1..(k - 1) : EndsWithExt(s.fields[j].type_)
    IN  IF ~EndsWithExt(fld.type_) /\ seen_ext
        THEN ExtensionOrderError(s.name, fld.name)
        ELSE IF ~InDefined(fld.type_, defined)
        THEN UndefinedTypeError(s.name, fld.type_.id)
        ELSE Ok

\* one iteration of the struct loop of _check_structs
StructErr(s, defined) ==
    IF s.base # "" /\ s.base \notin defined
    THEN UndefinedTypeError(s.name, s.base)
    ELSE LET bad == {k \in DOMAIN s.fields : FieldErr(s, k, defined) # Ok}
         IN  IF bad = {} THEN Ok ELSE FieldErr(s, Min(bad), defined)

_check_structs(d, defined) ==
    LET bad == {i \in DOMAIN d.structs : StructErr(d.structs[i], defined) # Ok}
    IN  IF bad = {} THEN Ok ELSE StructErr(d.structs[Min(bad)], defined)

\* BaseErr looking at the first field of the base only
BaseErr_FirstFieldOnly(d, base) ==
    IF base \notin StructNames(d) THEN KeyError(base)
    ELSE LET idx == {i \in DOMAIN d.structs : d.structs[i].name = base}
             s == d.structs[CHOOSE i \in idx : \A j \in idx : j <= i]
         IN  IF s.fields # <<>> /\ EndsWithExt(s.fields[1].type_)
             THEN BaseExtensionFieldError(base, s.fields[1].name)
             ELSE Ok

\* the body of the loop of _check_base_struct_extensions for one base name
BaseErr(d, base) ==
    IF base \notin StructNames(d) THEN KeyError(base)
    ELSE LET idx == {i \in DOMAIN d.structs : d.structs[i].name = base}
             s == d.structs[CHOOSE i \in idx : \A j \in idx : j <= i]
             bad == {k \in DOMAIN s.fields : EndsWithExt(s.fields[k].type_)}
         IN  IF bad = {} THEN Ok
             ELSE BaseExtensionFieldError(base, s.fields[Min(bad)].name)

\* base_names is a set of strings: its iteration order is not fixed, so the
\* error raised is the one of any offending base
_check_base_struct_extensions(d) ==
    LET base_names == {d.structs[i].base : i \in DOMAIN d.structs} \ {""}
        errs == {BaseErr(d, b) : b \in base_names} \ {Ok}
    IN  IF errs = {} THEN {Ok} ELSE errs

VariantErr(v, defined) ==
    LET bad == {k \in DOMAIN v.types : ~InDefined(v.types[k], defined)}
    IN  IF bad = {} THEN Ok ELSE UndefinedTypeError(v.name, v.types[Min(bad)].id)

_check_variants(d, defined) ==
    LET bad == {i \in DOMAIN d.variants : VariantErr(d.variants[i], defined) # Ok}
    IN  IF bad = {} THEN Ok ELSE VariantErr(d.variants[Min(bad)], defined)

\* the set of outcomes validate_definition can end with on d
validate_definition(d) ==
    LET defined == _collect_defined(d)
    IN  IF _check_duplicates(d) # Ok THEN {_check_duplicates(d)}
        ELSE IF _check_alias_targets(d, defined) # Ok THEN {_check_alias_targets(d, defined)}
        ELSE IF _detect_alias_cycles(d) # Ok THEN {_detect_alias_cycles(d)}
        ELSE IF _check_structs(d, defined) # Ok THEN {_check_structs(d, defined)}
        ELSE IF _check_base_struct_extensions(d) # {Ok} THEN _check_base_struct_extensions(d)
        ELSE {_check_variants(d, defined)}

----------------------------------------------------------------------------
(* Schemas explored by the validator specification                         *)

Schema(ts, ss, vs) == [types |-> ts, structs |-> ss, variants |-> vs]
AliasDef(n, t) == [new_type_name |-> n, type_ |-> t]
FieldDef(n, t) == [name |-> n, type_ |-> t]
StructDef(n, b, fs) == [name |-> n, base |-> b, fields |-> fs]
VariantDef(n, ts) == [name |-> n, types |-> ts]

FieldName(k) == IF k = 1 THEN "f1" ELSE IF k = 2 THEN "f2" ELSE IF k = 3 THEN "f3"
                ELSE IF k = 4 THEN "f4" ELSE "f5"

\* aliases only: every declaration order, cycles, lead-ins, undefined targets
AliasIds == {"a", "b", "c"}
AliasTargets == {T0("a"), T0("b"), T0("c"), T0("uint8"), T0("zz")}
AliasFamily ==
    {Schema(ts, <<>>, <<>>) :
        ts \in SeqsUpTo({AliasDef(n, t) : n \in AliasIds, t \in AliasTargets}, MaxAliases)}

\* two structs s and t: field lists with and without extension suffixes,
\* bases that are structs, builtins, undefined or absent
FieldTypes == {T0("uint8"), TN("uint8", <<"$">>), TN("uint8", <<"$", "?">>), T0("zz")}
FieldLists(n) ==
    {[k \in DOMAIN ts |-> FieldDef(FieldName(k), ts[k])] : ts \in SeqsUpTo(FieldTypes, n)}
StructFamily ==
    {Schema(<<>>, <<StructDef("s", b1, f1), StructDef("t", b2, f2)>>, <<>>) :
        b1 \in {"", "t", "uint8"}, f1 \in FieldLists(MaxFields),
        b2 \in {"", "s", "t", "uint8", "zz"}, f2 \in FieldLists(1)}

\* one alias, one struct and one variant whose names may collide with each
\* other or with a builtin
MixIds == {"a", "b", "uint8"}
MixFamily ==
    {Schema(<<AliasDef(n1, T0("uint16"))>>,
            <<StructDef(n2, "", <<FieldDef("f1", T0("uint8"))>>)>>,
            <<VariantDef(n3, <<t>>)>>) :
        n1 \in MixIds, n2 \in MixIds, n3 \in MixIds,
        t \in {T0("uint8"), T0("a"), T0("zz")}}
    \cup {Schema(<<>>, <<StructDef(n2, "", <<>>)>>, <<>>) : n2 \in MixIds}
    \cup {Schema(<<>>, <<>>, <<VariantDef(n3, <<T0("uint8")>>)>>) : n3 \in MixIds}

\* one struct whose fields may be of the alias e of an extension type
ExtAliasFamily ==
    {Schema(<<AliasDef("e", TN("uint8", <<"$">>))>>,
            <<StructDef("s", "", [k \in DOMAIN ts |-> FieldDef(FieldName(k), ts[k])])>>,
            <<>>) :
        ts \in SeqsUpTo({T0("e"), T0("uint8")}, 2)}

\* most suffixes of a type name with nested modifiers
MaxSuffixes == 2

\* one alias target, field type or variant arm: a builtin under every
\* sequence of "[]", "?" and "$" suffixes
NestedTypes == {TN("uint8", sfx) : sfx \in SeqsUpTo({"[]", "?", "$"}, MaxSuffixes)}
NestedFamily ==
    {Schema(<<AliasDef("a", t)>>, <<>>, <<>>) : t \in NestedTypes}
    \cup {Schema(<<>>, <<StructDef("s", "", <<FieldDef("f1", t)>>)>>, <<>>) : t \in NestedTypes}
    \cup {Schema(<<>>, <<>>, <<VariantDef("v", <<t>>)>>) : t \in NestedTypes}

Schemas == AliasFamily \cup StructFamily \cup MixFamily \cup ExtAliasFamily \cup NestedFamily

----------------------------------------------------------------------------
(* Bytes, VarUInt32 and the fixed-width integer leaves                     *)

\* largest array length of the values explored by the codec specification
MaxArr == 2

Pow2(n) == 2 ^ n

RECURSIVE Concat(_)
Concat(ss) == IF ss = <<>> THEN <<>> ELSE Head(ss) \o Concat(Tail(ss))

\* s[off:] with off counted from 0; past the end it is empty
Drop(s, off) == IF off >= Len(s) THEN <<>> ELSE SubSeq(s, off + 1, Len(s))

\* VarUInt32.from_int(n).encode(): 7 bits per byte, low group first, the top
\* bit set on every byte but the last
RECURSIVE VarUIntEncode(_)
VarUIntEncode(n) ==
    IF n < 128 THEN <<n>> ELSE <<128 + (n % 128)>> \o VarUIntEncode(n \div 128)

\* VarUInt32.from_bytes(raw): the leading varuint of raw and its encode_length
RECURSIVE VarUIntDecode(_)
VarUIntDecode(raw) ==
    IF raw = <<>> THEN [err |-> "DecodeError", n |-> 0, used |-> 0]
    ELSE IF Head(raw) < 128 THEN [err |-> "", n |-> Head(raw), used |-> 1]
    ELSE LET rest == VarUIntDecode(Tail(raw))
         IN  IF rest.err # "" THEN rest
             ELSE [err |-> "", n |-> (Head(raw) - 128) + 128 * rest.n, used |-> 1 + rest.used]

\* make_int_type(bits, signed=False): the unsigned classes by ABI name
Bits(cls) == IF cls = "uint8" THEN 8 ELSE 16
IntMax(cls) == Pow2(Bits(cls)) - 1

\* python integers are unbounded; the model keeps them exact below IntCap, the
\* first value out of range of every modelled class, and stands for every
\* larger one by IntCap
IntCap == Pow2(16)
Sat(n) == IF n >= IntCap THEN IntCap ELSE n

\* int.from_bytes(raw, byteorder='little', signed=False) over ALL of raw
RECURSIVE IntFromBytes(_)
IntFromBytes(raw) ==
    IF raw = <<>> THEN 0 ELSE Sat(Head(raw) + 256 * IntFromBytes(Tail(raw)))

\* n.to_bytes(length, byteorder='little') for 0 <= n < 256^length
RECURSIVE ToBytesLE(_, _)
ToBytesLE(n, length) ==
    IF length = 0 THEN <<>> ELSE <<n % 256>> \o ToBytesLE(n \div 256, length - 1)

\* IntBase.encode raises OverflowError unless the value fits
IntFits(cls, n) == 0 <= n /\ n <= IntMax(cls)
IntEncode(cls, n) == ToBytesLE(n, Bits(cls) \div 8)

----------------------------------------------------------------------------
(* Values.  Every python object is one record shape so that any two can    *)
(* be compared: k is the kind, cls the class, n an integer payload and     *)
(* items the children.                                                     *)

Cls(n) == [n |-> n, i |-> -1]
\* the wrapper struct of arm i of variant v, named f'{v_name}_{i}'
WrapCls(v, i) == [n |-> v, i |-> i]
NoCls == Cls("")

Obj(k, cls, n, items) == [k |-> k, cls |-> cls, n |-> n, items |-> items]
None == Obj("none", NoCls, 0, <<>>)
MkInt(cls, n) == Obj("int", Cls(cls), n, <<>>)
MkList(items) == Obj("list", NoCls, 0, items)
\* a generated Struct instance: items are the field values in pipeline order
MkStruct(cls, items) == Obj("struct", Cls(cls), 0, items)
\* a wrapper struct instance around a scalar
MkWrap(cls, inner) == Obj("wrap", cls, 0, <<inner>>)
\* a Variant instance around its _inner
MkVariant(cls, inner) == Obj("variant", Cls(cls), 0, <<inner>>)

\* structural (builtin) values: int, None, list, str and dict (items are
\* entries, an entry holds its key in cls.n and its value in items[1])
BInt(n) == Obj("bint", NoCls, n, <<>>)
BNone == Obj("bnone", NoCls, 0, <<>>)
BList(items) == Obj("blist", NoCls, 0, items)
BStr(s) == Obj("bstr", Cls(s), 0, <<>>)
BEntry(key, val) == Obj("entry", Cls(key), 0, <<val>>)
BDict(entries) == Obj("bdict", NoCls, 0, entries)

----------------------------------------------------------------------------
(* The schema whose generated types the codec specification exercises      *)

CodecSchema ==
    Schema(
        <<AliasDef("pa", T0("p"))>>,
        <<StructDef("p", "", <<FieldDef("value", T0("uint8"))>>),
          StructDef("q", "", <<FieldDef("a", T0("uint8")), FieldDef("b", T0("uint16"))>>),
          StructDef("r", "", <<FieldDef("x", TN("uint8", <<"?">>)),
                               FieldDef("y", TN("uint8", <<"[]">>)),
                               FieldDef("z", TN("uint8", <<"$">>))>>),
          StructDef("s", "p", <<FieldDef("n", T0("q")),
                                FieldDef("l", TN("p", <<"[]">>)),
                                FieldDef("e", TN("uint16", <<"$">>))>>),
          StructDef("t", "", <<FieldDef("a", TN("uint8", <<"$">>)),
                               FieldDef("b", TN("uint8", <<"$">>))>>)>>,
        <<VariantDef("v", <<T0("p"), T0("uint8")>>),
          VariantDef("w", <<T0("uint8"), T0("uint16")>>),
          VariantDef("u", <<T0("p"), T0("pa")>>),
          VariantDef("x", <<T0("pa"), T0("uint16")>>)>>)

----------------------------------------------------------------------------
(* Type resolution (ABI.resolve_type)                                      *)

ModOf(sfx) == IF sfx = "[]" THEN "array" ELSE IF sfx = "?" THEN "optional" ELSE "extension"

\* suffixes read right to left: the last suffix is the outermost modifier
RECURSIVE ModsOf(_)
ModsOf(sfx) == IF sfx = <<>> THEN <<>> ELSE <<ModOf(Last(sfx))>> \o ModsOf(Front(sfx))

AliasTarget(d, name) ==
    d.types[CHOOSE i \in DOMAIN d.types : d.types[i].new_type_name = name].type_

\* follow aliases from id; the alias's own modifiers go outward of mods
RECURSIVE ResolveFrom(_, _, _, _)
ResolveFrom(d, id, mods, fuel) ==
    IF id \in AliasNames(d) /\ fuel > 0
    THEN LET t == AliasTarget(d, id)
         IN  ResolveFrom(d, t.id, ModsOf(t.sfx) \o mods, fuel - 1)
    ELSE [resolved_name |-> id,
          is_std |-> id \in builtin_types,
          is_struct |-> id \in StructNames(d),
          is_variant |-> id \in VariantNames(d),
          modifiers |-> mods]

resolve_type(d, t) == ResolveFrom(d, t.id, ModsOf(t.sfx), Len(d.types))

----------------------------------------------------------------------------
(* Namespace builder: the parts that fix the codec of a generated type     *)

StructDefOf(d, name) ==
    d.structs[CHOOSE i \in DOMAIN d.structs : d.structs[i].name = name]
VariantDefOf(d, name) ==
    d.variants[CHOOSE i \in DOMAIN d.variants : d.variants[i].name = name]

\* base fields first (recursively), then the struct's own fields
RECURSIVE _expand_struct_fields(_, _)
_expand_struct_fields(d, sdef) ==
    (IF sdef.base # "" THEN _expand_struct_fields(d, StructDefOf(d, sdef.base)) ELSE <<>>)
    \o [k \in DOMAIN sdef.fields |->
            [name |-> sdef.fields[k].name, info |-> resolve_type(d, sdef.fields[k].type_)]]

\* _ENC_PIPELINES / _BLT_PIPELINES of struct `name`, with the leaf class that
\* the field's annotation carries
Pipeline(d, name) ==
    LET abi_fields == _expand_struct_fields(d, StructDefOf(d, name))
    IN  [k \in DOMAIN abi_fields |->
            [name |-> abi_fields[k].name,
             mods |-> abi_fields[k].info.modifiers,
             leaf |-> abi_fields[k].info.resolved_name]]

\* the union members collected for a variant: a struct arm is the struct
\* class itself, any other arm gets its own wrapper struct
UnionMembers(d, vdef) ==
    [i \in DOMAIN vdef.types |->
        LET info == resolve_type(d, vdef.types[i])
        IN  IF info.is_struct
            THEN [cls |-> Cls(info.resolved_name), wrapper |-> FALSE, inner |-> info.resolved_name]
            ELSE [cls |-> WrapCls(vdef.name, i - 1), wrapper |-> TRUE, inner |-> info.resolved_name]]

\* typing.Union keeps one copy of a repeated member, at its first position
RECURSIVE Dedup(_)
Dedup(ms) ==
    IF ms = <<>> THEN <<>>
    ELSE LET front == Dedup(Front(ms))
         IN  IF \E k \in DOMAIN front : front[k].cls = Last(ms).cls
             THEN front
             ELSE Append(front, Last(ms))

_union(ms) == Dedup(ms)

\* get_args(cls.__value__) or (cls.__value__,) of the generated variant
Arms(d, v) == _union(UnionMembers(d, VariantDefOf(d, v)))

\* the struct names that get a msgspec tag
tagged_structs(d) ==
    UNION {{resolve_type(d, d.variants[i].types[k]).resolved_name :
               k \in {k \in DOMAIN d.variants[i].types :
                         resolve_type(d, d.variants[i].types[k]).is_struct}} :
           i \in DOMAIN d.variants}

----------------------------------------------------------------------------
(* Codec runtime: encode                                                   *)

GenStructs == StructNames(CodecSchema)
GenVariants == VariantNames(CodecSchema)

\* cls._ENC_PIPELINES, built once per generated struct
ENC_PIPELINES == [n \in GenStructs |-> Pipeline(CodecSchema, n)]
\* get_args(cls.__value__) or (cls.__value__,), per generated variant
VariantArms == [v \in GenVariants |-> Arms(CodecSchema, v)]

RECURSIVE _encode_val(_, _)
RECURSIVE ObjEncode(_)

\* Struct.encode
StructEncode(self) ==
    LET pl == ENC_PIPELINES[self.cls.n]
    IN  Concat([k \in DOMAIN pl |-> _encode_val(self.items[k], pl[k].mods)])

\* arms.index(type(self._inner)), zero-based
ArmIndex(self) ==
    LET arms == VariantArms[self.cls.n]
    IN  (CHOOSE k \in DOMAIN arms : arms[k].cls = self.items[1].cls) - 1

\* Variant.encode
VariantEncode(self) == VarUIntEncode(ArmIndex(self)) \o ObjEncode(self.items[1])

\* val.encode() of a leaf object
ObjEncode(val) ==
    CASE val.k = "int" -> IntEncode(val.cls.n, val.n)
      [] val.k = "struct" -> StructEncode(val)
      [] val.k = "wrap" -> ObjEncode(val.items[1])
      [] val.k = "variant" -> VariantEncode(val)

\* _encode_val writing no presence byte before a present optional
_encode_val_NoMarker(val, modifiers) ==
    IF modifiers = <<>>
    THEN CASE val.k \in {"int", "struct", "wrap", "variant"} -> ObjEncode(val)
           [] val.k = "list" ->
                Concat([k \in DOMAIN val.items |-> _encode_val(val.items[k], <<>>)])
           [] val.k = "none" -> <<>>
    ELSE LET outer == Head(modifiers)
             inner == Tail(modifiers)
         IN  CASE outer = "optional" ->
                    IF val.k = "none" THEN <<0>> ELSE _encode_val(val, inner)
               [] outer = "extension" ->
                    IF val.k = "none" THEN <<>> ELSE _encode_val(val, inner)
               [] outer = "array" ->
                    VarUIntEncode(Len(val.items))
                    \o Concat([k \in DOMAIN val.items |-> _encode_val(val.items[k], inner)])

_encode_val(val, modifiers) ==
    IF modifiers = <<>>
    THEN CASE val.k \in {"int", "struct", "wrap", "variant"} -> ObjEncode(val)
           [] val.k = "list" ->
                Concat([k \in DOMAIN val.items |-> _encode_val(val.items[k], <<>>)])
           [] val.k = "none" -> <<>>
    ELSE LET outer == Head(modifiers)
             inner == Tail(modifiers)
         IN  CASE outer = "optional" ->
                    IF val.k = "none" THEN <<0>> ELSE <<1>> \o _encode_val(val, inner)
               [] outer = "extension" ->
                    IF val.k = "none" THEN <<>> ELSE _encode_val(val, inner)
               [] outer = "array" ->
                    VarUIntEncode(Len(val.items))
                    \o Concat([k \in DOMAIN val.items |-> _encode_val(val.items[k], inner)])

----------------------------------------------------------------------------
(* Codec runtime: from_bytes                                               *)

\* outcome of a decoding step: err is "" on success
Res(err, val, used) == [err |-> err, val |-> val, used |-> used]
Fail(err) == Res(err, None, 0)

RECURSIVE _decode_val(_, _, _)
RECURSIVE DecodeFields(_, _, _, _, _)
RECURSIVE DecodeItems(_, _, _, _, _, _)

\* the main loop of Struct.from_bytes from field k on: off is the offset
\* reached and kv the values decoded so far
DecodeFields(cls, buf, k, off, kv) ==
    LET pl == ENC_PIPELINES[cls]
    IN  IF k > Len(pl) THEN Res("", MkStruct(cls, kv), off)
        ELSE LET r == _decode_val(pl[k].leaf, Drop(buf, off), pl[k].mods)
             IN  IF r.err # "" THEN r
                 ELSE DecodeFields(cls, buf, k + 1, off + r.used, Append(kv, r.val))

\* Struct.from_bytes
StructFromBytes(cls, raw) == DecodeFields(cls, raw, 1, 0, <<>>)

\* base.from_bytes(view) of a leaf class and len(val.encode())
LeafFromBytes(base, view) ==
    IF base \in builtin_types
    THEN LET n == IntFromBytes(view)
         IN  IF IntFits(base, n)
             THEN Res("", MkInt(base, n), Len(IntEncode(base, n)))
             ELSE Fail("OverflowError")
    ELSE LET r == StructFromBytes(base, view)
         IN  IF r.err # "" THEN r ELSE Res("", r.val, Len(StructEncode(r.val)))

\* the array loop of _decode_val: cnt items still to read from position pos
DecodeItems(base, view, inner, cnt, pos, items) ==
    IF cnt = 0 THEN Res("", MkList(items), pos)
    ELSE LET r == _decode_val(base, Drop(view, pos), inner)
         IN  IF r.err # "" THEN r
             ELSE DecodeItems(base, view, inner, cnt - 1, pos + r.used, Append(items, r.val))

_decode_val(base, view, mods) ==
    IF mods = <<>> THEN LeafFromBytes(base, view)
    ELSE LET outer == Head(mods)
             inner == Tail(mods)
         IN  CASE outer = "optional" ->
                    IF view = <<>> THEN Fail("IndexError")
                    ELSE IF view[1] = 0 THEN Res("", None, 1)
                    ELSE LET r == _decode_val(base, Drop(view, 1), inner)
                         IN  IF r.err # "" THEN r ELSE Res("", r.val, 1 + r.used)
               [] outer = "extension" ->
                    IF Len(view) = 0 THEN Res("", None, 0)
                    ELSE _decode_val(base, view, inner)
               [] outer = "array" ->
                    LET size_v == VarUIntDecode(view)
                    IN  IF size_v.err # "" THEN Fail(size_v.err)
                        ELSE DecodeItems(base, view, inner, size_v.n, size_v.used, <<>>)

\* arm_cls.from_bytes(payload): a struct class decodes its pipeline, a wrapper
\* struct wraps what the scalar class reads from the whole payload
ArmFromBytes(arm_cls, payload) ==
    IF arm_cls.wrapper
    THEN Res("", MkWrap(arm_cls.cls, MkInt(arm_cls.inner, IntFromBytes(payload))), 0)
    ELSE StructFromBytes(arm_cls.inner, payload)

\* Variant.from_bytes
VariantFromBytes(cls, raw) ==
    LET tag_vu == VarUIntDecode(raw)
        arms == VariantArms[cls]
    IN  IF tag_vu.err # "" THEN Fail(tag_vu.err)
        ELSE IF tag_vu.n >= Len(arms) THEN Fail("ValueError")
        ELSE LET inner == ArmFromBytes(arms[tag_vu.n + 1], Drop(raw, tag_vu.used))
             IN  IF inner.err # "" THEN inner ELSE Res("", MkVariant(cls, inner.val), 0)

\* T.from_bytes for a generated type T
FromBytes(typ, raw) ==
    IF typ \in GenVariants THEN VariantFromBytes(typ, raw) ELSE StructFromBytes(typ, raw)

----------------------------------------------------------------------------
(* Codec runtime: to_builtins                                              *)

RECURSIVE _to_builtins_val(_, _)
RECURSIVE ObjToBuiltins(_)

\* Struct.to_builtins
StructToBuiltins(self) ==
    LET pl == ENC_PIPELINES[self.cls.n]
    IN  BDict([k \in DOMAIN pl |->
                  BEntry(pl[k].name, _to_builtins_val(self.items[k], pl[k].mods))])

\* Variant.to_builtins: a dict gets the tag entry, anything else is returned as is
VariantToBuiltins(self) ==
    LET out == ObjToBuiltins(self.items[1])
    IN  IF out.k = "bdict"
        THEN BDict(<<BEntry("antelope_type", BStr(self.items[1].cls.n))>> \o out.items)
        ELSE out

\* val.to_builtins() of a leaf object
ObjToBuiltins(val) ==
    CASE val.k = "int" -> BInt(val.n)
      [] val.k = "struct" -> StructToBuiltins(val)
      [] val.k = "wrap" -> ObjToBuiltins(val.items[1])
      [] val.k = "variant" -> VariantToBuiltins(val)

_to_builtins_val(val, modifiers) ==
    IF modifiers = <<>>
    THEN CASE val.k \in {"int", "struct", "wrap", "variant"} -> ObjToBuiltins(val)
           [] val.k = "list" ->
                BList([k \in DOMAIN val.items |-> _to_builtins_val(val.items[k], <<>>)])
           [] val.k = "none" -> BNone
    ELSE LET outer == Head(modifiers)
             inner == Tail(modifiers)
         IN  CASE outer \in {"optional", "extension"} ->
                    IF val.k = "none" THEN BNone ELSE _to_builtins_val(val, inner)
               [] outer = "array" ->
                    BList([k \in DOMAIN val.items |-> _to_builtins_val(val.items[k], inner)])

----------------------------------------------------------------------------
(* Codec runtime: try_from (msgspec.convert with dec_hook)                 *)

HasKey(b, key) == \E k \in DOMAIN b.items : b.items[k].cls.n = key
Lookup(b, key) == b.items[CHOOSE k \in DOMAIN b.items : b.items[k].cls.n = key].items[1]

\* IntBase.try_from reached through dec_hook: an int in range, else the
\* ValueError that convert reports as a ValidationError
IntTryFrom(cls, obj) ==
    IF obj.k = "bint" /\ IntFits(cls, obj.n)
    THEN Res("", MkInt(cls, obj.n), 0)
    ELSE Fail("ValidationError")

RECURSIVE ConvertAnn(_, _, _)
RECURSIVE ConvertFields(_, _, _, _)
RECURSIVE ConvertItems(_, _, _, _, _)

\* convert(obj, type=<generated struct cls>): a dict with every field; a tag
\* entry, when the struct is tagged and the entry is present, must name it
ConvertStruct(cls, obj) ==
    IF obj.k # "bdict" THEN Fail("ValidationError")
    ELSE IF /\ cls \in tagged_structs(CodecSchema)
            /\ HasKey(obj, "antelope_type")
            /\ Lookup(obj, "antelope_type") # BStr(cls)
    THEN Fail("ValidationError")
    ELSE ConvertFields(cls, obj, 1, <<>>)

ConvertFields(cls, obj, k, kv) ==
    LET pl == ENC_PIPELINES[cls]
    IN  IF k > Len(pl) THEN Res("", MkStruct(cls, kv), 0)
        ELSE IF ~HasKey(obj, pl[k].name) THEN Fail("ValidationError")
        ELSE LET r == ConvertAnn(pl[k].leaf, pl[k].mods, Lookup(obj, pl[k].name))
             IN  IF r.err # "" THEN r ELSE ConvertFields(cls, obj, k + 1, Append(kv, r.val))

ConvertItems(leaf, mods, objs, k, items) ==
    IF k > Len(objs) THEN Res("", MkList(items), 0)
    ELSE LET r == ConvertAnn(leaf, mods, objs[k])
         IN  IF r.err # "" THEN r ELSE ConvertItems(leaf, mods, objs, k + 1, Append(items, r.val))

\* convert(obj, type=ann) for the annotation _apply_modifiers builds from a
\* leaf class and its modifiers
ConvertAnn(leaf, mods, obj) ==
    IF mods = <<>>
    THEN IF leaf \in builtin_types THEN IntTryFrom(leaf, obj) ELSE ConvertStruct(leaf, obj)
    ELSE CASE Head(mods) \in {"optional", "extension"} ->
                IF obj.k = "bnone" THEN Res("", None, 0) ELSE ConvertAnn(leaf, Tail(mods), obj)
           [] Head(mods) = "array" ->
                IF obj.k # "blist" THEN Fail("ValidationError")
                ELSE ConvertItems(leaf, Tail(mods), obj.items, 1, <<>>)

\* Struct.try_from
StructTryFrom(cls, obj) == ConvertStruct(cls, obj)

\* the msgspec tag of a union member: the struct's name, or the variant's
\* name for a wrapper
ArmTag(arm) == arm.cls.n

\* convert(obj, type=<wrapper struct>)
ConvertWrapper(arm, obj) ==
    IF obj.k # "bdict" THEN Fail("ValidationError")
    ELSE IF HasKey(obj, "antelope_type") /\ Lookup(obj, "antelope_type") # BStr(ArmTag(arm))
    THEN Fail("ValidationError")
    ELSE IF ~HasKey(obj, "value") THEN Fail("ValidationError")
    ELSE LET r == IntTryFrom(arm.inner, Lookup(obj, "value"))
         IN  IF r.err # "" THEN r ELSE Res("", MkWrap(arm.cls, r.val), 0)

ConvertArm(arm, obj) ==
    IF arm.wrapper THEN ConvertWrapper(arm, obj) ELSE ConvertStruct(arm.inner, obj)

\* convert(obj, type=cls.__value__): one class, or a union of struct classes
\* that msgspec tells apart by the tag entry (it refuses, with a TypeError, a
\* union in which two members carry the same tag)
ConvertTarget(arms, obj) ==
    IF Len(arms) = 1 THEN ConvertArm(arms[1], obj)
    ELSE IF \E i, j \in DOMAIN arms : i # j /\ ArmTag(arms[i]) = ArmTag(arms[j])
    THEN Fail("TypeError")
    ELSE IF obj.k # "bdict" \/ ~HasKey(obj, "antelope_type") THEN Fail("ValidationError")
    ELSE LET hit == {k \in DOMAIN arms : BStr(ArmTag(arms[k])) = Lookup(obj, "antelope_type")}
         IN  IF hit = {} THEN Fail("ValidationError")
             ELSE ConvertArm(arms[CHOOSE k \in hit : TRUE], obj)

\* getattr(alt, '__struct_fields__', ()) == ('value',)
IsValueCarrier(arm) ==
    \/ arm.wrapper
    \/ LET pl == ENC_PIPELINES[arm.inner] IN Len(pl) = 1 /\ pl[1].name = "value"

\* the body of the fallback loop of Variant.try_from for one alternative
FallbackArm(arm, obj) ==
    IF arm.wrapper
    THEN LET r == IntTryFrom(arm.inner, obj)
         IN  IF r.err # "" THEN r ELSE Res("", MkWrap(arm.cls, r.val), 0)
    ELSE LET pl == ENC_PIPELINES[arm.inner]
             r == ConvertAnn(pl[1].leaf, pl[1].mods, obj)
         IN  IF r.err # "" THEN r ELSE Res("", MkStruct(arm.inner, <<r.val>>), 0)

\* Variant.try_from
VariantTryFrom(cls, obj) ==
    LET arms == VariantArms[cls]
        first == ConvertTarget(arms, obj)
        hits == {k \in DOMAIN arms : IsValueCarrier(arms[k]) /\ FallbackArm(arms[k], obj).err = ""}
        inner ==
            IF first.err # "ValidationError" THEN first
            ELSE IF Len(arms) = 1 \/ hits = {} THEN first
            ELSE FallbackArm(arms[Min(hits)], obj)
    IN  IF inner.err # "" THEN inner ELSE Res("", MkVariant(cls, inner.val), 0)

\* T.try_from for a generated type T
TryFrom(typ, obj) ==
    IF typ \in GenVariants THEN VariantTryFrom(typ, obj) ELSE StructTryFrom(typ, obj)

----------------------------------------------------------------------------
(* Equality of generated values (the == of the python objects)             *)

\* issubclass(sub, sup) among the generated structs: along the base chain
RECURSIVE IsSubclass(_, _, _)
IsSubclass(sub, sup, fuel) ==
    \/ sub = sup
    \/ /\ fuel > 0
       /\ sub \in GenStructs
       /\ StructDefOf(CodecSchema, sub).base # ""
       /\ IsSubclass(StructDefOf(CodecSchema, sub).base, sup, fuel - 1)

RECURSIVE PyEq(_, _)
PyEq(a, b) ==
    CASE a.k = "int" -> b.k = "int" /\ a.n = b.n
      [] a.k = "none" -> b.k = "none"
      [] a.k = "list" ->
            /\ b.k = "list"
            /\ Len(a.items) = Len(b.items)
            /\ \A k \in DOMAIN a.items : PyEq(a.items[k], b.items[k])
      [] a.k = "struct" ->
            /\ b.k = "struct"
            /\ IsSubclass(b.cls.n, a.cls.n, Len(CodecSchema.structs))
            /\ \A k \in DOMAIN a.items : PyEq(a.items[k], b.items[k])
      [] a.k = "wrap" -> b.k = "wrap" /\ a.cls = b.cls /\ PyEq(a.items[1], b.items[1])
      [] a.k = "variant" -> PyEq(a.items[1], IF b.k = "variant" THEN b.items[1] ELSE b)
      [] OTHER -> FALSE

----------------------------------------------------------------------------
(* The reference wire encoding of a struct: pack(type_name, builtins)      *)

RECURSIVE RefField(_, _, _)
RECURSIVE RefPack(_, _)

RefField(leaf, mods, b) ==
    IF mods = <<>>
    THEN IF leaf \in builtin_types THEN ToBytesLE(b.n, Bits(leaf) \div 8) ELSE RefPack(leaf, b)
    ELSE CASE Head(mods) = "optional" ->
                IF b.k = "bnone" THEN <<0>> ELSE <<1>> \o RefField(leaf, Tail(mods), b)
           [] Head(mods) = "extension" ->
                IF b.k = "bnone" THEN <<>> ELSE RefField(leaf, Tail(mods), b)
           [] Head(mods) = "array" ->
                VarUIntEncode(Len(b.items))
                \o Concat([k \in DOMAIN b.items |-> RefField(leaf, Tail(mods), b.items[k])])

RefPack(type_name, b) ==
    LET pl == Pipeline(CodecSchema, type_name)
    IN  Concat([k \in DOMAIN pl |-> RefField(pl[k].leaf, pl[k].mods, Lookup(b, pl[k].name))])

----------------------------------------------------------------------------
(* Values and buffers explored by the codec specification                  *)

\* largest raw buffer handed to from_bytes
MaxRaw == 3

IntSamples(cls) == {0, 1, IntMax(cls)}

RECURSIVE FieldValues(_, _)
RECURSIVE FieldTuples(_, _)

\* the valid instances of generated struct cls
StructValues(cls) ==
    {MkStruct(cls, items) : items \in FieldTuples(ENC_PIPELINES[cls], Len(ENC_PIPELINES[cls]))}

FieldValues(leaf, mods) ==
    IF mods = <<>>
    THEN IF leaf \in builtin_types
         THEN {MkInt(leaf, n) : n \in IntSamples(leaf)}
         ELSE StructValues(leaf)
    ELSE IF Head(mods) = "array"
    THEN {MkList(items) : items \in SeqsUpTo(FieldValues(leaf, Tail(mods)), MaxArr)}
    ELSE {None} \cup FieldValues(leaf, Tail(mods))

FieldTuples(pl, k) ==
    IF k = 0 THEN {<<>>}
    ELSE {Append(t, v) : t \in FieldTuples(pl, k - 1), v \in FieldValues(pl[k].leaf, pl[k].mods)}

\* the instances of generated variant cls: one of its arms wrapped
ArmValues(arm) ==
    IF arm.wrapper
    THEN {MkWrap(arm.cls, MkInt(arm.inner, n)) : n \in IntSamples(arm.inner)}
    ELSE StructValues(arm.inner)

VariantValues(cls) ==
    UNION {{MkVariant(cls, inner) : inner \in ArmValues(VariantArms[cls][k])} :
              k \in DOMAIN VariantArms[cls]}

ValuesOf(t) == IF t \in GenVariants THEN VariantValues(t) ELSE StructValues(t)

RawBuffers == SeqsUpTo({0, 1, 2, 5}, MaxRaw)

Unset == Fail("unset")

----------------------------------------------------------------------------
(* Codec specification: a client encodes, decodes and converts values of   *)
(* the generated types, and decodes raw buffers                            *)

CodecIdle ==
    /\ gtype = "" /\ value = None /\ rawbuf = <<>> /\ encoded = <<>> /\ decoded = Unset
    /\ builtins = BNone /\ converted = Unset /\ packed = <<>>

HashIdle == hdefs = <<>> /\ digests = <<>>

BuildIdle == module = <<>> /\ bld = <<>>

InitCodec ==
    /\ defn = CodecSchema
    /\ vres \in validate_definition(CodecSchema)
    /\ gtype \in GenStructs \cup GenVariants
    /\ \/ pc = "new" /\ value \in ValuesOf(gtype) /\ rawbuf = <<>>
       \/ pc = "raw" /\ value = None /\ rawbuf \in RawBuffers
    /\ encoded = <<>> /\ decoded = Unset /\ builtins = BNone /\ converted = Unset /\ packed = <<>>
    /\ HashIdle
    /\ BuildIdle

\* value.encode()
DoEncode ==
    /\ pc = "new"
    /\ encoded' = ObjEncode(value)
    /\ pc' = "encoded"
    /\ UNCHANGED <<defn, vres, gtype, value, rawbuf, decoded, builtins, converted, packed, hashVars, buildVars>>

\* gtype.from_bytes(encoded)
DoFromBytes ==
    /\ pc = "encoded"
    /\ decoded' = FromBytes(gtype, encoded)
    /\ pc' = "decoded"
    /\ UNCHANGED <<defn, vres, gtype, value, rawbuf, encoded, builtins, converted, packed, hashVars, buildVars>>

\* value.to_builtins()
DoToBuiltins ==
    /\ pc = "decoded"
    /\ builtins' = ObjToBuiltins(value)
    /\ pc' = "builtins"
    /\ UNCHANGED <<defn, vres, gtype, value, rawbuf, encoded, decoded, converted, packed, hashVars, buildVars>>

\* the dict b without its tag entry
IsNotTag(e) == e.cls.n # "antelope_type"
Untagged(b) == BDict(SelectSeq(b.items, IsNotTag))

\* gtype.try_from(obj), obj being value.to_builtins() or, for a dict with a
\* tag entry, the same dict without the tag
DoTryFrom ==
    /\ pc = "builtins"
    /\ \E obj \in {builtins} \cup (IF builtins.k = "bdict" /\ HasKey(builtins, "antelope_type")
                                   THEN {Untagged(builtins)} ELSE {}) :
           /\ builtins' = obj
           /\ converted' = TryFrom(gtype, obj)
           /\ pc' = IF obj = builtins THEN "converted" ELSE "untagged"
    /\ UNCHANGED <<defn, vres, gtype, value, rawbuf, encoded, decoded, packed, hashVars, buildVars>>

\* abi.pack(gtype, builtins), for a struct type
DoPack ==
    /\ pc = "converted"
    /\ gtype \in GenStructs
    /\ packed' = RefPack(gtype, builtins)
    /\ pc' = "packed"
    /\ UNCHANGED <<defn, vres, gtype, value, rawbuf, encoded, decoded, builtins, converted, hashVars, buildVars>>

\* a from_bytes that takes the class out of the module when decoding fails
DoFromBytesRaw_Unpublishes ==
    /\ pc = "raw"
    /\ decoded' = FromBytes(gtype, rawbuf)
    /\ pc' = "rawdecoded"
    /\ module' = IF decoded'.err = "" THEN module ELSE <<>>
    /\ UNCHANGED <<defn, vres, gtype, value, rawbuf, encoded, builtins, converted, packed, hashVars, bld>>

\* gtype.from_bytes(rawbuf) on a buffer that need not come from encode
DoFromBytesRaw ==
    /\ pc = "raw"
    /\ decoded' = FromBytes(gtype, rawbuf)
    /\ pc' = "rawdecoded"
    /\ UNCHANGED <<defn, vres, gtype, value, rawbuf, encoded, builtins, converted, packed, hashVars, buildVars>>

NextCodec ==
    \/ DoEncode
    \/ DoFromBytes
    \/ DoToBuiltins
    \/ DoTryFrom
    \/ DoPack
    \/ DoFromBytesRaw

SpecCodec == InitCodec /\ [][NextCodec]_vars

----------------------------------------------------------------------------
(* Validator specification                                                 *)

InitValidate ==
    /\ defn \in Schemas
    /\ vres = Pending
    /\ pc = "validate"
    /\ CodecIdle
    /\ HashIdle
    /\ BuildIdle

\* validate_definition(defn)
Validate ==
    /\ pc = "validate"
    /\ vres = Pending
    /\ \E r \in validate_definition(defn) : vres' = r
    /\ UNCHANGED <<defn, codecVars, hashVars, buildVars>>

NextValidate == Validate

SpecValidate == InitValidate /\ [][NextValidate]_vars

----------------------------------------------------------------------------
(* Schema fingerprint.  In this part a name or type string is the sequence *)
(* of its characters, and a digest is the byte stream fed to SHA-256       *)
(* (SHA-256 taken as injective).                                           *)

\* longest name of the schemas whose fingerprints are compared
MaxName == 2

StructsMarker == <<"s", "t", "r", "u", "c", "t", "s">>
EnumsMarker == <<"e", "n", "u", "m", "s">>
AliasesMarker == <<"a", "l", "i", "a", "s", "e", "s">>

\* the stream of h.update calls of hash()
_hash(d) ==
    StructsMarker
    \o Concat([i \in DOMAIN d.structs |->
            d.structs[i].name
            \o Concat([k \in DOMAIN d.structs[i].fields |->
                    d.structs[i].fields[k].name \o d.structs[i].fields[k].type_])])
    \o EnumsMarker
    \o Concat([i \in DOMAIN d.variants |->
            d.variants[i].name \o Concat(d.variants[i].types)])
    \o AliasesMarker
    \o Concat([i \in DOMAIN d.types |-> d.types[i].new_type_name \o d.types[i].type_])

HashNames == SeqsUpTo({"a", "b"}, MaxName) \ {<<>>}
HashLeaf == {<<"a">>, <<"b">>}

\* schemas of field-less structs with at most one variant and one alias, and
\* schemas of one struct with one field
HashSchemas ==
    {Schema(ts, ss, vs) :
        ts \in {<<>>, <<AliasDef(<<"a">>, <<"b">>)>>},
        ss \in SeqsUpTo({StructDef(n, "", <<>>) : n \in HashNames}, 2),
        vs \in {<<>>, <<VariantDef(<<"a">>, <<<<"b">>>>)>>}}
    \cup {Schema(<<>>, <<StructDef(n, "", <<FieldDef(fn, ft)>>)>>, <<>>) :
              n \in HashNames, fn \in HashLeaf, ft \in HashLeaf}

InitHash ==
    /\ hdefs \in HashSchemas \X HashSchemas
    /\ digests = <<>>
    /\ pc = "hash"
    /\ defn = Schema(<<>>, <<>>, <<>>)
    /\ vres = Pending
    /\ CodecIdle
    /\ BuildIdle

\* hash() of both schemas
DoHash ==
    /\ pc = "hash"
    /\ digests' = <<_hash(hdefs[1]), _hash(hdefs[2])>>
    /\ pc' = "hashed"
    /\ UNCHANGED <<defn, vres, gtype, value, rawbuf, encoded, decoded, builtins, converted,
                   packed, hdefs, buildVars>>

NextHash == DoHash

SpecHash == InitHash /\ [][NextHash]_vars

----------------------------------------------------------------------------
(* Names as characters: to_camel and to_snake of utils.py.  The keys of the *)
(* published namespace are character sequences.                             *)

LowerLetters == <<"a", "b", "p", "q", "r", "s", "t", "u", "v", "w", "x">>
UpperLetters == <<"A", "B", "P", "Q", "R", "S", "T", "U", "V", "W", "X">>

IsLower(c) == \E i \in DOMAIN LowerLetters : LowerLetters[i] = c
IsUpper(c) == \E i \in DOMAIN UpperLetters : UpperLetters[i] = c
Upper(c) ==
    IF IsLower(c) THEN UpperLetters[CHOOSE i \in DOMAIN LowerLetters : LowerLetters[i] = c]
    ELSE c
Lower(c) ==
    IF IsUpper(c) THEN LowerLetters[CHOOSE i \in DOMAIN UpperLetters : UpperLetters[i] = c]
    ELSE c

\* str.islower(): some cased character, and no upper-case one
islower(cs) ==
    /\ \E i \in DOMAIN cs : IsLower(cs[i])
    /\ \A i \in DOMAIN cs : ~IsUpper(cs[i])

\* str.lower() and str.capitalize()
lower(cs) == [i \in DOMAIN cs |-> Lower(cs[i])]
capitalize(cs) == [i \in DOMAIN cs |-> IF i = 1 THEN Upper(cs[i]) ELSE Lower(cs[i])]

\* the groups of _camel_re.finditer: the runs of letters between underscores
RECURSIVE CamelGroups(_, _)
CamelGroups(cs, run) ==
    IF cs = <<>> THEN (IF run = <<>> THEN <<>> ELSE <<run>>)
    ELSE IF Head(cs) = "_"
         THEN (IF run = <<>> THEN <<>> ELSE <<run>>) \o CamelGroups(Tail(cs), <<>>)
         ELSE CamelGroups(Tail(cs), Append(run, Head(cs)))

to_camel(cs) ==
    IF (\A i \in DOMAIN cs : cs[i] # "_") /\ ~islower(cs)
    THEN cs
    ELSE LET groups == CamelGroups(cs, <<>>)
         IN  Concat([k \in DOMAIN groups |-> capitalize(groups[k])])

\* end of the run of lower-case letters that starts at position i
RECURSIVE LowerRunEnd(_, _)
LowerRunEnd(cs, i) ==
    IF i < Len(cs) /\ IsLower(cs[i + 1]) THEN LowerRunEnd(cs, i + 1) ELSE i

\* _snake_re_1.sub(r'\1_\2', s): an underscore before an upper-case letter
\* that is followed by lower-case letters and preceded by any character
RECURSIVE SnakeSub1(_)
SnakeSub1(cs) ==
    IF cs = <<>> THEN <<>>
    ELSE IF Len(cs) >= 3 /\ IsUpper(cs[2]) /\ IsLower(cs[3])
         THEN LET j == LowerRunEnd(cs, 3)
              IN  <<cs[1], "_">> \o SubSeq(cs, 2, j) \o SnakeSub1(SubSeq(cs, j + 1, Len(cs)))
         ELSE <<Head(cs)>> \o SnakeSub1(Tail(cs))

\* _snake_re_2.sub(r'\1_\2', s): an underscore between a lower-case letter
\* and an upper-case one
RECURSIVE SnakeSub2(_)
SnakeSub2(cs) ==
    IF cs = <<>> THEN <<>>
    ELSE IF Len(cs) >= 2 /\ IsLower(cs[1]) /\ IsUpper(cs[2])
         THEN <<cs[1], "_", cs[2]>> \o SnakeSub2(SubSeq(cs, 3, Len(cs)))
         ELSE <<Head(cs)>> \o SnakeSub2(Tail(cs))

to_snake(cs) == IF islower(cs) THEN cs ELSE lower(SnakeSub2(SnakeSub1(cs)))

\* the characters of the declared names used by the builder's schemas
Spelling(name) ==
    CASE name = "p" -> <<"p">>
      [] name = "q" -> <<"q">>
      [] name = "r" -> <<"r">>
      [] name = "s" -> <<"s">>
      [] name = "t" -> <<"t">>
      [] name = "u" -> <<"u">>
      [] name = "v" -> <<"v">>
      [] name = "w" -> <<"w">>
      [] name = "x" -> <<"x">>
      [] name = "pa" -> <<"p", "a">>
      [] name = "ab" -> <<"a", "b">>
      [] name = "Ab" -> <<"A", "b">>
      [] name = "a_b" -> <<"a", "_", "b">>

----------------------------------------------------------------------------
(* Namespace builder: build_struct_namespace(abi, module) as a state        *)
(* machine.  A python dict is the sequence of its entries in insertion      *)
(* order; each step of a caller ends at one setattr(module, ...), at a      *)
(* raise or at the return.                                                  *)

DictHas(dct, key) == \E i \in DOMAIN dct : dct[i].k = key
DictGet(dct, key) == dct[CHOOSE i \in DOMAIN dct : dct[i].k = key].v
DictPut(dct, key, val) ==
    IF DictHas(dct, key)
    THEN [i \in DOMAIN dct |-> IF dct[i].k = key THEN [k |-> key, v |-> val] ELSE dct[i]]
    ELSE Append(dct, [k |-> key, v |-> val])

\* a generated class: what it is, its __abi_type__, the call and the
\* position in that call that created it, and the names its annotations
\* hold as ForwardRef
GenType(kind, abi_type, by, serial, fwd) ==
    [kind |-> kind, abi_type |-> abi_type, by |-> by, serial |-> serial, fwd |-> fwd]

\* the keys of `fields = {str(fld.name): ... for fld in sdef.fields}`: a
\* repeated name keeps one key, at its first position
RECURSIVE FieldKeys(_)
FieldKeys(flds) ==
    IF flds = <<>> THEN <<>>
    ELSE LET front == FieldKeys(Front(flds))
         IN  IF \E k \in DOMAIN front : front[k] = Last(flds).name
             THEN front
             ELSE Append(front, Last(flds).name)

\* __struct_fields__ of the class msgspec.defstruct makes: the fields of the
\* base class, then the names the new class adds
struct_fields(base_fields, sdef) ==
    base_fields \o SelectSeq(FieldKeys(sdef.fields),
                             LAMBDA n : \A k \in DOMAIN base_fields : base_fields[k] # n)

\* a generated struct class with its fields and the list bound to both
\* _ENC_PIPELINES and _BLT_PIPELINES
GenStruct(cls, fields, pipelines) ==
    [kind |-> cls.kind, abi_type |-> cls.abi_type, by |-> cls.by, serial |-> cls.serial,
     fwd |-> cls.fwd, fields |-> fields, pipelines |-> pipelines]

\* deps[name]: the structs that the base and the fields of sdef resolve to
Deps(d, sdef) ==
    (IF sdef.base # "" /\ resolve_type(d, T0(sdef.base)).is_struct
     THEN {resolve_type(d, T0(sdef.base)).resolved_name} ELSE {})
    \cup {resolve_type(d, sdef.fields[k].type_).resolved_name :
             k \in {k \in DOMAIN sdef.fields : resolve_type(d, sdef.fields[k].type_).is_struct}}

\* [n for n, d in deps.items() if d <= structs.keys()]
DepsMet(d, pending, structs) ==
    SelectSeq(pending,
        LAMBDA n : \A dep \in Deps(d, StructDefOf(d, n)) : DictHas(structs, Spelling(dep)))

\* a round that emits every pending struct, whatever its dependencies
Ready_DeclaredOrder(d, pending, structs) == pending

\* ready = [n for n, d in deps.items() if d <= structs.keys()], or every
\* pending struct when that list is empty
Ready(d, pending, structs) ==
    LET ok == DepsMet(d, pending, structs)
    IN  IF ok = <<>> THEN pending ELSE ok

\* the annotation resolve_ann(type_str) mentions a ForwardRef: the leaf is a
\* struct not yet in structs, or a variant
HoldsForwardRef(d, structs, t) ==
    LET info == resolve_type(d, t)
    IN  \/ info.is_struct /\ ~DictHas(structs, Spelling(info.resolved_name))
        \/ ~info.is_std /\ ~info.is_struct /\ info.is_variant

\* it is a ForwardRef itself: _apply_modifiers had nothing to wrap around it
IsForwardRef(d, structs, t) ==
    HoldsForwardRef(d, structs, t) /\ resolve_type(d, t).modifiers = <<>>

\* the control flow between two steps: loop heads, exhausted loops and the
\* aliases that are skipped
RECURSIVE Advance(_, _)
Advance(d, l) ==
    CASE l.pc = "while" ->
           IF l.pending = <<>>
           THEN Advance(d, [l EXCEPT !.pc = "aliases", !.idx = 1])
           ELSE [l EXCEPT !.pc = "structs",
                          !.ready = Ready(d, l.pending, l.structs),
                          !.forced = (DepsMet(d, l.pending, l.structs) = <<>>),
                          !.round = l.round + 1,
                          !.atstart = Len(l.pending)]
      [] l.pc = "structs" /\ l.ready = <<>> ->
           Advance(d, [l EXCEPT !.pc = "variants", !.idx = 1])
      [] l.pc = "variants" /\ l.idx > Len(d.variants) ->
           Advance(d, [l EXCEPT !.pc = "while"])
      [] l.pc = "aliases" /\ l.idx > Len(d.types) ->
           Advance(d, [l EXCEPT !.pc = "reexport", !.todo = l.structs])
      [] l.pc = "aliases" /\ l.idx <= Len(d.types)
            /\ DictHas(l.structs, Spelling(d.types[l.idx].new_type_name)) ->
           Advance(d, [l EXCEPT !.idx = l.idx + 1])
      [] l.pc = "reexport" /\ l.todo = <<>> -> [l EXCEPT !.pc = "return"]
      [] OTHER -> l

Callers == {"c1", "c2"}

NotCalled ==
    [pc |-> "idle", pending |-> <<>>, ready |-> <<>>, forced |-> FALSE, round |-> 0,
     atstart |-> 0, idx |-> 0, todo |-> <<>>, structs |-> <<>>, serial |-> 0, err |-> ""]

Raise(l, e) == [l EXCEPT !.pc = "raised", !.err = e]

\* the call: pending and deps are computed, the while loop is entered
Call(c) ==
    /\ bld[c].pc = "idle"
    /\ bld' = [bld EXCEPT ![c] =
                  Advance(defn, [NotCalled EXCEPT
                      !.pc = "while",
                      !.pending = [i \in DOMAIN defn.structs |-> defn.structs[i].name]])]
    /\ UNCHANGED <<module, defn, vres, codecVars, hashVars>>

\* one pass of `for name in ready`: the struct class is created and published
EmitStruct(c) ==
    /\ bld[c].pc = "structs"
    /\ LET l == bld[c]
           name == Head(l.ready)
           sdef == StructDefOf(defn, name)
           popped == [l EXCEPT !.pending = SelectSeq(l.pending, LAMBDA n : n # name),
                               !.ready = Tail(l.ready)]
           base_fields == IF sdef.base = "" THEN <<>>
                          ELSE DictGet(l.structs, Spelling(sdef.base)).fields
           cls == GenStruct(
                      GenType("struct", Spelling(name), c, l.serial,
                          {sdef.fields[k].type_.id :
                              k \in {k \in DOMAIN sdef.fields :
                                        HoldsForwardRef(defn, l.structs, sdef.fields[k].type_)}}),
                      struct_fields(base_fields, sdef),
                      Pipeline(defn, name))
       IN  IF sdef.base # "" /\ ~DictHas(l.structs, Spelling(sdef.base))
           THEN /\ bld' = [bld EXCEPT ![c] = Raise(popped, "KeyError")]
                /\ UNCHANGED module
           ELSE /\ module' = DictPut(module, Spelling(name), cls)
                /\ bld' = [bld EXCEPT ![c] =
                              Advance(defn, [popped EXCEPT
                                  !.structs = DictPut(l.structs, Spelling(name), cls),
                                  !.serial = l.serial + 1])]
    /\ UNCHANGED <<defn, vres, codecVars, hashVars>>

\* _wrap_as_struct looks a ForwardRef arm up in module.__dict__
WrapperLookupFails(d, structs, modns, vdef) ==
    \E i \in DOMAIN vdef.types :
        /\ ~resolve_type(d, vdef.types[i]).is_struct
        /\ IsForwardRef(d, structs, vdef.types[i])
        /\ ~DictHas(modns,
               to_snake(to_camel(Spelling(resolve_type(d, vdef.types[i]).resolved_name))))

\* one pass of `for vdef in abi.variants`, inside the while loop
EmitVariant(c) ==
    /\ bld[c].pc = "variants"
    /\ LET l == bld[c]
           vdef == defn.variants[l.idx]
           alias_obj == GenType("variant", Spelling(vdef.name), c, l.serial,
                            {vdef.types[i].id :
                                i \in {i \in DOMAIN vdef.types :
                                          HoldsForwardRef(defn, l.structs, vdef.types[i])}})
       IN  IF WrapperLookupFails(defn, l.structs, module, vdef)
           THEN /\ bld' = [bld EXCEPT ![c] = Raise(l, "KeyError")]
                /\ UNCHANGED module
           ELSE /\ module' = DictPut(module, Spelling(vdef.name), alias_obj)
                /\ bld' = [bld EXCEPT ![c] =
                              Advance(defn, [l EXCEPT
                                  !.structs = DictPut(l.structs, Spelling(vdef.name), alias_obj),
                                  !.serial = l.serial + 1,
                                  !.idx = l.idx + 1])]
    /\ UNCHANGED <<defn, vres, codecVars, hashVars>>

\* one pass of `for alias in abi.types`, after the while loop
PublishAlias(c) ==
    /\ bld[c].pc = "aliases"
    /\ LET l == bld[c]
           alias == defn.types[l.idx]
           alias_name == Spelling(alias.new_type_name)
           alias_obj == GenType("alias", to_snake(to_camel(alias_name)), c, l.serial,
                            IF HoldsForwardRef(defn, l.structs, T0(alias.new_type_name))
                            THEN {resolve_type(defn, T0(alias.new_type_name)).resolved_name}
                            ELSE {})
       IN  /\ module' = DictPut(module, alias_name, alias_obj)
           /\ bld' = [bld EXCEPT ![c] =
                         Advance(defn, [l EXCEPT
                             !.structs = DictPut(l.structs, alias_name, alias_obj),
                             !.serial = l.serial + 1,
                             !.idx = l.idx + 1])]
    /\ UNCHANGED <<defn, vres, codecVars, hashVars>>

\* one pass of `for name, cls in list(structs.items())`: the CamelCase name
ReExport(c) ==
    /\ bld[c].pc = "reexport"
    /\ LET l == bld[c]
           cam_name == to_camel(Head(l.todo).k)
           cls == Head(l.todo).v
       IN  /\ module' = DictPut(module, cam_name, cls)
           /\ bld' = [bld EXCEPT ![c] =
                         Advance(defn, [l EXCEPT
                             !.structs = DictPut(l.structs, cam_name, cls),
                             !.todo = Tail(l.todo)])]
    /\ UNCHANGED <<defn, vres, codecVars, hashVars>>

\* return structs
Return(c) ==
    /\ bld[c].pc = "return"
    /\ bld' = [bld EXCEPT ![c].pc = "returned"]
    /\ UNCHANGED <<module, defn, vres, codecVars, hashVars>>

\* most structs of a schema handed to the builder
MaxStructs == 3

\* structs with and without dependencies: a field of struct type, a base, a
\* reference cycle through a base, a struct that is its own base, a field of
\* variant type, a field name declared twice, a field name of the base
\* declared again
BuildStructDefs ==
    {StructDef("p", "", <<FieldDef("f1", T0("uint8"))>>),
     StructDef("s", "", <<FieldDef("f2", T0("p"))>>),
     StructDef("s", "t", <<>>),
     StructDef("s", "s", <<>>),
     StructDef("t", "", <<FieldDef("f3", T0("s"))>>),
     StructDef("t", "", <<>>),
     StructDef("t", "", <<FieldDef("f3", T0("v"))>>),
     StructDef("p", "", <<FieldDef("f1", T0("uint8")), FieldDef("f1", T0("uint8"))>>),
     StructDef("s", "p", <<FieldDef("f1", T0("uint8")), FieldDef("f2", TN("uint8", <<"[]">>))>>)}

BuildVariantLists ==
    {<<>>,
     <<VariantDef("v", <<T0("uint8")>>)>>,
     <<VariantDef("v", <<T0("p"), T0("uint8")>>)>>,
     <<VariantDef("v", <<T0("w")>>), VariantDef("w", <<T0("uint8")>>)>>}

BuildAliasLists ==
    {<<>>, <<AliasDef("pa", T0("uint8"))>>, <<AliasDef("pa", T0("p"))>>}

\* names that share a CamelCase form
CamelSchemas ==
    {Schema(ts, ss, <<>>) :
        ts \in {<<>>, <<AliasDef("a_b", T0("uint8"))>>},
        ss \in SeqsUpTo({StructDef("ab", "", <<>>), StructDef("Ab", "", <<>>)}, 2)}

\* the schemas handed to the builder are those that validate_definition accepts
BuildSchemas ==
    {d \in {Schema(ts, ss, vs) : ts \in BuildAliasLists,
                                 ss \in SeqsUpTo(BuildStructDefs, MaxStructs),
                                 vs \in BuildVariantLists} \cup CamelSchemas :
        validate_definition(d) = {Ok}}

\* the schemas that two callers build into the same module at the same time
SharedSchemas ==
    {Schema(<<AliasDef("pa", T0("p"))>>,
            <<StructDef("p", "", <<FieldDef("f1", T0("uint8"))>>)>>,
            <<VariantDef("v", <<T0("p"), T0("uint8")>>)>>),
     Schema(<<>>,
            <<StructDef("p", "", <<FieldDef("f1", T0("uint8"))>>),
              StructDef("s", "", <<FieldDef("f2", T0("p"))>>)>>,
            <<>>)}

InitBuild ==
    /\ defn \in BuildSchemas
    /\ vres = Ok
    /\ pc = "build"
    /\ CodecIdle
    /\ HashIdle
    /\ module = <<>>
    /\ \E active \in {{"c1"}} \cup (IF defn \in SharedSchemas THEN {Callers} ELSE {}) :
           bld = [c \in Callers |->
                     IF c \in active THEN NotCalled ELSE [NotCalled EXCEPT !.pc = "absent"]]

NextBuild ==
    \E c \in Callers :
        \/ Call(c)
        \/ EmitStruct(c)
        \/ EmitVariant(c)
        \/ PublishAlias(c)
        \/ ReExport(c)
        \/ Return(c)

SpecBuild == InitBuild /\ [][NextBuild]_vars

\* the next statement of call c
CallerStep(c) ==
    \/ Call(c)
    \/ EmitStruct(c)
    \/ EmitVariant(c)
    \/ PublishAlias(c)
    \/ ReExport(c)
    \/ Return(c)

\* a call that can take its next step takes it: the builder is straight-line
\* code that waits for nothing, and the interpreter keeps scheduling the
\* thread that runs it
SpecBuildFair == SpecBuild /\ \A c \in Callers : WF_vars(CallerStep(c))

----------------------------------------------------------------------------
(* Build, then use: the codec schema is built into the module by one call  *)
(* and the generated types are used once that call has returned            *)

\* the types whose values and buffers are explored on the built namespace
UsedTypes == {"p", "t", "w"}

InitUse ==
    /\ defn = CodecSchema
    /\ vres \in validate_definition(CodecSchema)
    /\ gtype \in UsedTypes
    /\ \/ pc = "new" /\ value \in ValuesOf(gtype) /\ rawbuf = <<>>
       \/ pc = "raw" /\ value = None /\ rawbuf \in RawBuffers
    /\ encoded = <<>> /\ decoded = Unset /\ builtins = BNone /\ converted = Unset /\ packed = <<>>
    /\ HashIdle
    /\ module = <<>>
    /\ bld = [c \in Callers |-> IF c = "c1" THEN NotCalled ELSE [NotCalled EXCEPT !.pc = "absent"]]

\* the build step is complete
Built == bld["c1"].pc = "returned"

NextUse ==
    \/ NextBuild
    \/ Built /\ NextCodec

SpecUse == InitUse /\ [][NextUse]_vars

----------------------------------------------------------------------------
(* Properties of the codec                                                 *)

\* C1: binary round-trip.  For every generated type T and every valid value v
\* of T, T.from_bytes(v.encode()) returns a value and it equals v.
C1_BinaryRoundTrip ==
    pc = "decoded" => (decoded.err = "" /\ PyEq(decoded.val, value))

\* C2: structural round-trip.  For every generated type T and every valid
\* value v of T, T.try_from(v.to_builtins()) returns a value and it equals v.
C2_StructuralRoundTrip ==
    pc = "converted" => (converted.err = "" /\ PyEq(converted.val, value))

\* C3: for every value of a generated struct type, encode() is the reference
\* wire encoding of its to_builtins(): fields in pipeline order; Optional is
\* 0x00, or 0x01 and the inner encoding; Extension is nothing, or the inner
\* encoding; Array is varuint(count) and the elements.
C3_EncodeIsReference ==
    pc = "packed" => encoded = packed

\* a value with a present optional, a non-empty array and an absent extension
\* was encoded and packed
C3_Witness ==
    /\ pc = "packed"
    /\ gtype = "r"
    /\ value.items[1].k = "int"
    /\ Len(value.items[2].items) = 2
    /\ value.items[3].k = "none"
    /\ encoded = packed

DeclaredArms(v) == UnionMembers(CodecSchema, VariantDefOf(CodecSchema, v))

\* C7: variant tag range on decode.  For a variant with n declared arms,
\* from_bytes fails with the range error when the tag is >= n, and for a tag
\* t < n it hands the rest of the buffer to the decoder of the t-th declared
\* arm and wraps what that returns.
C7_VariantTagRange ==
    (pc = "rawdecoded" /\ gtype \in GenVariants /\ VarUIntDecode(rawbuf).err = "") =>
        LET tag_vu == VarUIntDecode(rawbuf)
            declared == DeclaredArms(gtype)
        IN  IF tag_vu.n >= Len(declared)
            THEN decoded.err = "ValueError"
            ELSE LET inner == ArmFromBytes(declared[tag_vu.n + 1], Drop(rawbuf, tag_vu.used))
                 IN  IF inner.err # "" THEN decoded = inner
                     ELSE decoded = Res("", MkVariant(gtype, inner.val), 0)

\* C8: variant encode discriminator.  The arm list kept by a generated variant
\* is the list of its declared arms in declared order, and encode() of a
\* value is varuint(i) followed by the payload's encoding, i being a
\* zero-based position of the payload's type in the declared list.
C8_VariantDiscriminator ==
    (pc = "encoded" /\ gtype \in GenVariants) =>
        /\ VariantArms[gtype] = DeclaredArms(gtype)
        /\ \E k \in DOMAIN DeclaredArms(gtype) :
              /\ DeclaredArms(gtype)[k].cls = value.items[1].cls
              /\ encoded = VarUIntEncode(k - 1) \o ObjEncode(value.items[1])

----------------------------------------------------------------------------
(* Properties of the validator                                             *)

Validated == vres # Pending

\* struct s declares a field without a trailing "$" after one with it
ExtViolation(s) ==
    \E j, k \in DOMAIN s.fields :
        j < k /\ EndsWithExt(s.fields[j].type_) /\ ~EndsWithExt(s.fields[k].type_)

HasExtField(s) == \E k \in DOMAIN s.fields : EndsWithExt(s.fields[k].type_)

NamesDistinct(d) ==
    \A i, j \in DOMAIN DeclList(d) : i # j => DeclList(d)[i].name # DeclList(d)[j].name

AliasTargetsDefined(d) ==
    \A i \in DOMAIN d.types :
        d.types[i].type_.sfx = <<>> /\ d.types[i].type_.id \in _collect_defined(d)

\* the alias names reachable from the names in S by following n edges or less
RECURSIVE AliasReach(_, _, _)
AliasReach(d, S, n) ==
    IF n = 0 THEN S
    ELSE AliasReach(d,
            S \cup {d.types[i].type_.id : i \in {k \in DOMAIN d.types : d.types[k].new_type_name \in S}},
            n - 1)

HasAliasCycle(d) ==
    \E i \in DOMAIN d.types :
        d.types[i].new_type_name \in AliasReach(d, {d.types[i].type_.id}, Len(d.types))

\* ch starts and ends with the same alias and every step is an alias -> target edge
IsFullCycle(d, ch) ==
    /\ Len(ch) >= 2
    /\ ch[1] = ch[Len(ch)]
    /\ \A k \in 1..(Len(ch) - 1) :
          \E i \in DOMAIN d.types :
              d.types[i].new_type_name = ch[k] /\ d.types[i].type_.id = ch[k + 1]

\* C6: alias cycles.  A schema with distinct names and defined alias targets
\* whose alias graph has a cycle is rejected with the cyclic-alias error, and
\* the reported path is the cycle itself: it starts and ends with the same
\* alias and each step is an alias -> target edge, for every declaration order.
C6_AliasCycleFullPath ==
    (Validated /\ NamesDistinct(defn) /\ AliasTargetsDefined(defn) /\ HasAliasCycle(defn)) =>
        /\ vres.err = "CyclicAliasError"
        /\ IsFullCycle(defn, vres.chain)

DeclaresBuiltinName(d) ==
    \E i \in DOMAIN DeclList(d) : DeclList(d)[i].name \in builtin_types

\* C10: name uniqueness.  A schema in which two declarations share a name, or
\* in which a declaration takes the name of a builtin type, is rejected with
\* the duplicate-name error.
C10_NameUniqueness ==
    Validated =>
        ((~NamesDistinct(defn) \/ DeclaresBuiltinName(defn)) =>
            vres.err = "DuplicateNameError")

----------------------------------------------------------------------------
(* Properties of the fingerprint                                           *)

\* what the fingerprint is meant to tell apart: the ordered struct names with
\* their own (field name, field type) pairs, the ordered variants with their
\* arms, and the ordered alias pairs
Decls(d) ==
    [structs |-> [i \in DOMAIN d.structs |->
                     [name |-> d.structs[i].name, fields |-> d.structs[i].fields]],
     variants |-> d.variants,
     types |-> d.types]

----------------------------------------------------------------------------
(* Further properties of the validator                                     *)

\* the names of the ABIValidationError subclasses
TypedErrors ==
    {"UndefinedTypeError", "DuplicateNameError", "ExtensionOrderError",
     "BaseExtensionFieldError", "CyclicAliasError"}

\* some struct's base is given and names no struct
HasNonStructBase(d) ==
    \E i \in DOMAIN d.structs :
        d.structs[i].base # "" /\ d.structs[i].base \notin StructNames(d)

\* C11: base must be a struct.  A schema in which some struct's base names an
\* undefined type, a builtin or a variant is rejected with a typed validation
\* error, and validate_definition never ends with any other kind of exception.
C11_BaseIsStructTypedError ==
    Validated =>
        /\ vres.err \in TypedErrors \cup {"ok"}
        /\ HasNonStructBase(defn) => vres.err \in TypedErrors

----------------------------------------------------------------------------
(* Properties of the namespace builder                                     *)

SoleCaller(c) == \A o \in Callers \ {c} : bld[o].pc = "absent"

\* C12: all-or-nothing build.  If the construction of the namespace fails
\* at any point, no generated type has been published to the target module.
C12_AllOrNothingBuild ==
    \A c \in Callers :
        (SoleCaller(c) /\ bld[c].pc = "raised") => module = <<>>

DeclaredNames(d) == StructNames(d) \cup VariantNames(d) \cup AliasNames(d)

\* C13: namespace completeness.  Whenever the construction returns normally,
\* the returned namespace holds a generated type under every declared struct,
\* variant and alias name, also when the schema declares no struct.
C13_NamespaceComplete ==
    \A c \in Callers :
        bld[c].pc = "returned" =>
            \A n \in DeclaredNames(defn) : DictHas(bld[c].structs, Spelling(n))

\* C14: dual naming.  For every declared name n of a returned namespace the
\* entries under n and under to_camel(n) both exist and are the same type,
\* and the __abi_type__ of that type is n; also for declared names that share
\* a CamelCase form.
C14_DualNaming ==
    \A c \in Callers :
        bld[c].pc = "returned" =>
            \A n \in DeclaredNames(defn) :
                /\ DictHas(bld[c].structs, Spelling(n))
                /\ DictHas(bld[c].structs, to_camel(Spelling(n)))
                /\ DictGet(bld[c].structs, Spelling(n))
                       = DictGet(bld[c].structs, to_camel(Spelling(n)))
                /\ DictGet(bld[c].structs, Spelling(n)).abi_type = Spelling(n)

\* the keys under which the types of schema d are published
PublishedKeys(d) ==
    {Spelling(n) : n \in DeclaredNames(d)} \cup {to_camel(Spelling(n)) : n \in DeclaredNames(d)}

\* some, but not all, of the declared types are bound in the module
HalfBuilt ==
    /\ \E key \in PublishedKeys(defn) : DictHas(module, key)
    /\ \E key \in PublishedKeys(defn) : ~DictHas(module, key)

\* a step binds a name of the module to another type than before
Rebinds ==
    \E i \in DOMAIN module : module'[i] # module[i]

\* C18: no half-built namespace is observable.  If a build runs while other
\* callers read the module, or two builds of one schema run at once, no state
\* shows some but not all of the declared types published, and no declared
\* name is ever bound a second time.
C18_NoHalfBuiltNamespace ==
    [](~HalfBuilt) /\ [][~Rebinds]_vars

----------------------------------------------------------------------------
(* Further properties of the codec                                         *)

\* C15: variant tag on the structural form.  For every variant value,
\* to_builtins() is the structural form of the arm with one added tag entry,
\* and the tag is the type name of the arm as the variant declares it: not
\* the arm's index, and not the resolved name when the arm is declared
\* through an alias.
C15_VariantStructuralTag ==
    (pc = "builtins" /\ gtype \in GenVariants) =>
        LET inner == value.items[1]
            types == VariantDefOf(CodecSchema, gtype).types
        IN  /\ builtins.k = "bdict"
            /\ HasKey(builtins, "antelope_type")
            /\ \E k \in DOMAIN types :
                   /\ DeclaredArms(gtype)[k].cls = inner.cls
                   /\ Lookup(builtins, "antelope_type") = BStr(types[k].id)
            /\ Tail(builtins.items) = ObjToBuiltins(inner).items

\* the arm's own structural conversion of obj: the struct's for a struct arm,
\* the scalar's for any other arm
OwnConversion(arm, obj) ==
    IF arm.wrapper
    THEN LET r == IntTryFrom(arm.inner, obj)
         IN  IF r.err # "" THEN r ELSE Res("", MkWrap(arm.cls, r.val), 0)
    ELSE ConvertStruct(arm.inner, obj)

\* C16: untagged variant construction.  For a structural value without a tag
\* entry, try_from tries the own structural conversion of every arm in
\* declared order, struct arms and scalar arms alike, returns the first that
\* succeeds, and fails with the no-matching-arm error exactly when none does.
C16_UntaggedVariantConstruction ==
    (/\ pc \in {"converted", "untagged"}
     /\ gtype \in GenVariants
     /\ ~(builtins.k = "bdict" /\ HasKey(builtins, "antelope_type"))) =>
        LET arms == DeclaredArms(gtype)
            hits == {k \in DOMAIN arms : OwnConversion(arms[k], builtins).err = ""}
        IN  IF hits = {}
            THEN converted.err = "ValidationError"
            ELSE converted =
                     Res("", MkVariant(gtype, OwnConversion(arms[Min(hits)], builtins).val), 0)

\* Reading a pipeline strictly: the number of bytes that a value of
\* (leaf, modifiers) takes at the head of view, or -1 when view ends before
\* the value is complete.  An Extension value is never incomplete here.
RECURSIVE StrictUsed(_, _, _)
RECURSIVE StrictFieldsUsed(_, _, _)
RECURSIVE StrictItemsUsed(_, _, _, _)

StrictFieldsUsed(pl, k, view) ==
    IF k > Len(pl) THEN 0
    ELSE LET u == StrictUsed(pl[k].leaf, pl[k].mods, view)
         IN  IF u < 0 THEN -1
             ELSE LET rest == StrictFieldsUsed(pl, k + 1, Drop(view, u))
                  IN  IF rest < 0 THEN -1 ELSE u + rest

StrictItemsUsed(leaf, mods, count, view) ==
    IF count = 0 THEN 0
    ELSE LET u == StrictUsed(leaf, mods, view)
         IN  IF u < 0 THEN -1
             ELSE LET rest == StrictItemsUsed(leaf, mods, count - 1, Drop(view, u))
                  IN  IF rest < 0 THEN -1 ELSE u + rest

StrictUsed(leaf, mods, view) ==
    IF mods = <<>>
    THEN IF leaf \in builtin_types
         THEN (IF Len(view) >= Bits(leaf) \div 8 THEN Bits(leaf) \div 8 ELSE -1)
         ELSE StrictFieldsUsed(ENC_PIPELINES[leaf], 1, view)
    ELSE CASE Head(mods) = "optional" ->
                IF view = <<>> THEN -1
                ELSE IF Head(view) = 0 THEN 1
                ELSE LET u == StrictUsed(leaf, Tail(mods), Tail(view))
                     IN  IF u < 0 THEN -1 ELSE 1 + u
           [] Head(mods) = "extension" ->
                IF view = <<>> THEN 0
                ELSE LET u == StrictUsed(leaf, Tail(mods), view)
                     IN  IF u < 0 THEN Len(view) ELSE u
           [] Head(mods) = "array" ->
                LET cnt == VarUIntDecode(view)
                IN  IF cnt.err # "" THEN -1
                    ELSE LET u == StrictItemsUsed(leaf, Tail(mods), cnt.n, Drop(view, cnt.used))
                         IN  IF u < 0 THEN -1 ELSE cnt.used + u

\* the buffer ends before every non-Extension field of struct cls is read
ShortBuffer(cls, raw) == StrictFieldsUsed(ENC_PIPELINES[cls], 1, raw) < 0

\* C17: short-buffer decode error.  from_bytes on a buffer that ends before
\* all non-Extension fields are fully read (a truncated leaf, a missing
\* presence byte, an array count above the elements left) fails with a decode
\* error and never returns a value.
C17_ShortBufferDecodeError ==
    (pc = "rawdecoded" /\ gtype \in GenStructs /\ ShortBuffer(gtype, rawbuf)) =>
        decoded.err # ""

----------------------------------------------------------------------------
(* Properties of the validator and the pipelines built from its schemas    *)

\* the base chain of struct `name` runs through structs and ends
RECURSIVE BaseChainEnds(_, _, _)
BaseChainEnds(d, name, fuel) ==
    /\ fuel > 0
    /\ name \in StructNames(d)
    /\ \/ StructDefOf(d, name).base = ""
       \/ BaseChainEnds(d, StructDefOf(d, name).base, fuel - 1)

HasExtension(mods) == \E m \in DOMAIN mods : mods[m] = "extension"

\* no field with Extension in its modifier stack is followed by one without
ExtensionsTrail(pl) ==
    \A j, k \in DOMAIN pl :
        (j < k /\ HasExtension(pl[j].mods)) => HasExtension(pl[k].mods)

\* C19: Extension fields trail in every pipeline.  For every accepted schema
\* and every struct of it, in the flattened pipeline (the base's fields, then
\* the struct's own, resolved through aliases) no field whose modifier stack
\* holds Extension is followed by a field whose stack does not; this covers an
\* Extension that comes from an alias target and a "$" that is not the last
\* suffix.
C19_ExtensionTrailsInPipeline ==
    (Validated /\ vres.err = "ok") =>
        \A i \in DOMAIN defn.structs :
            BaseChainEnds(defn, defn.structs[i].name, Len(defn.structs)) =>
                ExtensionsTrail(Pipeline(defn, defn.structs[i].name))

\* what the struct checks find in one struct s, in the stated order: the
\* base exists and is a struct, then the field types exist, then the
\* extension fields are contiguous
StructCheckErrors(d, s) ==
    LET defined == _collect_defined(d)
    IN  IF s.base # "" /\ s.base \notin defined THEN {"UndefinedTypeError"}
        ELSE IF s.base # "" /\ s.base \notin StructNames(d) THEN TypedErrors
        ELSE IF \E k \in DOMAIN s.fields : ~InDefined(s.fields[k].type_, defined)
        THEN {"UndefinedTypeError"}
        ELSE IF ExtViolation(s) THEN {"ExtensionOrderError"}
        ELSE {}

\* The error kinds that the stated order of the checks allows for schema d:
\* (1) duplicate names, (2) alias targets exist, then alias cycles, (3) the
\* struct checks, struct by struct, (4) base hygiene, (5) variant arms exist.
ErrorOfEarliestCheck(d) ==
    LET defined == _collect_defined(d)
        bad == {i \in DOMAIN d.structs : StructCheckErrors(d, d.structs[i]) # {}}
    IN  IF ~NamesDistinct(d) THEN {"DuplicateNameError"}
        ELSE IF \E i \in DOMAIN d.types : ~InDefined(d.types[i].type_, defined)
        THEN {"UndefinedTypeError"}
        ELSE IF HasAliasCycle(d) THEN {"CyclicAliasError"}
        ELSE IF bad # {} THEN StructCheckErrors(d, d.structs[Min(bad)])
        ELSE IF \E i, j \in DOMAIN d.structs :
                    d.structs[j].base = d.structs[i].name /\ HasExtField(d.structs[i])
        THEN {"BaseExtensionFieldError"}
        ELSE IF \E i \in DOMAIN d.variants : \E k \in DOMAIN d.variants[i].types :
                    ~InDefined(d.variants[i].types[k], defined)
        THEN {"UndefinedTypeError"}
        ELSE {"ok"}

\* C20: validation order.  The checks run in the order duplicates, alias
\* targets then alias cycles, struct checks (base, then field types, then
\* extension contiguity), base hygiene, variant arms; for a schema that
\* violates several checks the error raised is that of the earliest one, so
\* an undefined field type is reported rather than an extension-ordering
\* violation of the same struct.
C20_ValidationOrder ==
    Validated => vres.err \in ErrorOfEarliestCheck(defn)

----------------------------------------------------------------------------
(* Extension fields on the wire                                            *)

IsExtensionField(f) == f.mods # <<>> /\ Head(f.mods) = "extension"

\* the position of field k of struct value val in val.encode(): the bytes
\* the fields before it produce (and the bytes _decode_val reports as used
\* for them, which are len(val.encode()) of what it decoded)
FieldOffset(val, k) ==
    LET pl == ENC_PIPELINES[val.cls.n]
    IN  Len(Concat([j \in 1..(k - 1) |-> _encode_val(val.items[j], pl[j].mods)]))

\* decoding buf gave struct val: each Extension field is present exactly when
\* a byte was left at its position
DecodedByRemainder(val, buf) ==
    \A k \in DOMAIN val.items :
        IsExtensionField(ENC_PIPELINES[val.cls.n][k]) =>
            (val.items[k].k # "none" <=> FieldOffset(val, k) < Len(buf))

\* in buf, the encoding of struct val, bytes left at an Extension field mean
\* that field and every later Extension field of val are present
RemainderMeansPresent(val, buf) ==
    \A k \in DOMAIN val.items :
        (IsExtensionField(ENC_PIPELINES[val.cls.n][k]) /\ FieldOffset(val, k) < Len(buf)) =>
            \A j \in k..Len(val.items) :
                IsExtensionField(ENC_PIPELINES[val.cls.n][j]) => val.items[j].k # "none"

\* C21: Extension decode rule.  While decoding a struct, an Extension field is
\* set present if and only if at least one byte remains at its position, and
\* is otherwise absent and consumes nothing; and in every buffer produced by
\* encode of a struct value, bytes remaining at an Extension field's position
\* mean that this field and all later Extension fields were present in the
\* encoded value.
C21_ExtensionDecodeRule ==
    /\ (pc \in {"decoded", "rawdecoded"} /\ gtype \in GenStructs /\ decoded.err = "") =>
           DecodedByRemainder(decoded.val, IF pc = "decoded" THEN encoded ELSE rawbuf)
    /\ (pc = "encoded" /\ gtype \in GenStructs) => RemainderMeansPresent(value, encoded)

----------------------------------------------------------------------------
(* Pipelines and fields of the generated struct classes                    *)

\* the pipeline entries of the fields that sdef itself declares
OwnPipeline(d, sdef) ==
    [k \in DOMAIN sdef.fields |->
        [name |-> sdef.fields[k].name,
         mods |-> resolve_type(d, sdef.fields[k].type_).modifiers,
         leaf |-> resolve_type(d, sdef.fields[k].type_).resolved_name]]

PipelineNames(pl) == [k \in DOMAIN pl |-> pl[k].name]

\* C22: pipeline flattening.  For every generated struct, the stored codec
\* pipeline is the pipeline of its base (empty without a base) followed by its
\* own declared fields in declared order with their resolved modifiers; encode,
\* from_bytes and to_builtins read that one pipeline; and the pipeline has the
\* same field names, in the same order, as the generated type's fields.
C22_PipelineFlattening ==
    \A i \in DOMAIN module : \A j \in DOMAIN defn.structs :
        (module[i].v.kind = "struct" /\ Spelling(defn.structs[j].name) = module[i].v.abi_type) =>
            LET sdef == defn.structs[j]
                cls == module[i].v
                base_pl == IF sdef.base = "" THEN <<>>
                           ELSE DictGet(module, Spelling(sdef.base)).pipelines
            IN  /\ cls.pipelines = base_pl \o OwnPipeline(defn, sdef)
                /\ PipelineNames(cls.pipelines) = cls.fields

----------------------------------------------------------------------------
(* Emission order of the structs                                           *)

\* the structs reachable from the structs of `from` along dependency edges
RECURSIVE DepReach(_, _, _)
DepReach(d, from, fuel) ==
    IF fuel = 0 THEN from
    ELSE DepReach(d, from \cup UNION {Deps(d, StructDefOf(d, n)) : n \in from}, fuel - 1)

\* no struct depends on itself, directly or through other structs
Acyclic(d) ==
    \A n \in StructNames(d) :
        n \notin DepReach(d, Deps(d, StructDefOf(d, n)), Len(d.structs))

\* the step creates the class of struct n in call c
NewStruct(c, n) ==
    /\ DictHas(bld'[c].structs, Spelling(n))
    /\ ~DictHas(bld[c].structs, Spelling(n))

\* the types that the fields of cls hold as ForwardRef and that are structs
StructForwardRefs(d, cls) == {id \in cls.fwd : resolve_type(d, T0(id)).is_struct}

\* a struct of an acyclic schema is created after its dependencies and with no
\* forward reference to a struct; a forward reference to a struct is made only
\* in a round in which no struct was ready
EmitsAfterDeps ==
    \A c \in Callers : \A n \in StructNames(defn) :
        NewStruct(c, n) =>
            LET cls == DictGet(bld'[c].structs, Spelling(n))
            IN  /\ Acyclic(defn) =>
                       /\ \A dep \in Deps(defn, StructDefOf(defn, n)) :
                              DictHas(bld[c].structs, Spelling(dep))
                       /\ StructForwardRefs(defn, cls) = {}
                /\ StructForwardRefs(defn, cls) # {} => bld[c].forced

\* the same with every forward reference counted, whatever it refers to
EmitsWithoutForwardRef ==
    \A c \in Callers : \A n \in StructNames(defn) :
        NewStruct(c, n) =>
            LET cls == DictGet(bld'[c].structs, Spelling(n))
            IN  /\ Acyclic(defn) =>
                       /\ \A dep \in Deps(defn, StructDefOf(defn, n)) :
                              DictHas(bld[c].structs, Spelling(dep))
                       /\ cls.fwd = {}
                /\ cls.fwd # {} => bld[c].forced

\* C23 (as amended): topological emission.  When the struct dependency graph
\* is acyclic, every struct is emitted only after all structs it depends on,
\* so no struct field is bound to a forward reference to a struct; forward
\* references to structs are made only for structs emitted in a round where no
\* struct was ready.  (A field of variant type is always a forward reference.)
C23_TopologicalEmission == [][EmitsAfterDeps]_vars

\* C23 (as stated): topological emission.  When the struct dependency graph is
\* acyclic, every struct is emitted only after all structs it depends on, so
\* no struct field or base is bound to a forward reference; forward references
\* are used only for structs emitted in a round where no struct was ready.
C23_NoForwardRefAtAll == [][EmitsWithoutForwardRef]_vars

\* a struct declared before the struct it depends on was emitted after it
C23_Witness ==
    /\ Acyclic(defn)
    /\ Len(defn.structs) >= 2
    /\ defn.structs[2].name \in Deps(defn, defn.structs[1])
    /\ DictHas(bld["c1"].structs, Spelling(defn.structs[1].name))
    /\ DictHas(bld["c1"].structs, Spelling(defn.structs[2].name))
    /\ DictGet(bld["c1"].structs, Spelling(defn.structs[2].name)).serial
           < DictGet(bld["c1"].structs, Spelling(defn.structs[1].name)).serial

----------------------------------------------------------------------------
(* Termination of the worklist loop                                        *)

\* call c is inside `while pending:`
InLoop(l) == l.pc \in {"structs", "variants"}

\* the step of call c ends an iteration of the loop: the next one begins, or
\* the loop is left (it ran out of structs, or a statement raised)
EndsIteration(c) ==
    /\ InLoop(bld[c])
    /\ \/ bld'[c].round # bld[c].round
       \/ ~InLoop(bld'[c])

\* an iteration leaves fewer structs pending than it found
PendingShrinks ==
    \A c \in Callers : EndsIteration(c) => Len(bld'[c].pending) < bld[c].atstart

\* the step of call c creates a struct class
EmitsStruct(c) == bld[c].pc = "structs" /\ bld'[c].serial = bld[c].serial + 1

\* no struct class is created a second time
EmitsOnce ==
    \A c \in Callers :
        EmitsStruct(c) => ~DictHas(bld[c].structs, Spelling(Head(bld[c].ready)))

\* the loop of call c is over
LoopOver(l) == l.pc \in {"aliases", "reexport", "return", "returned", "raised"}

\* every struct of the schema has its class
AllEmitted(l) == \A n \in StructNames(defn) : DictHas(l.structs, Spelling(n))

\* C24: builder termination.  The worklist loop of build_struct_namespace
\* terminates; every iteration of the loop removes at least one struct from
\* the pending set; and each struct is emitted exactly once: never twice, and
\* once when the loop is over.
C24_BuilderTermination ==
    /\ \A c \in Callers : InLoop(bld[c]) ~> LoopOver(bld[c])
    /\ [][PendingShrinks /\ EmitsOnce]_vars
    /\ [](\A c \in Callers : LoopOver(bld[c]) => AllEmitted(bld[c]))

----------------------------------------------------------------------------
(* Reference cycles among the structs                                      *)

\* C25: cycle breaking.  For every schema accepted by validation whose struct
\* dependency graph contains a cycle (through fields or through a base), the
\* builder emits the structs that are left when none is ready with forward
\* references and the build completes without error, for every declaration
\* order of the structs.
C25_CycleBreaking ==
    \A c \in Callers :
        (validate_definition(defn) = {Ok} /\ ~Acyclic(defn)) => bld[c].pc # "raised"

----------------------------------------------------------------------------
(* Type names with nested modifiers                                        *)

\* the alias targets, field types and variant arms of d
TypeRefs(d) ==
    {d.types[i].type_ : i \in DOMAIN d.types}
    \cup UNION {{d.structs[i].fields[k].type_ : k \in DOMAIN d.structs[i].fields} :
                   i \in DOMAIN d.structs}
    \cup UNION {{d.variants[i].types[k] : k \in DOMAIN d.variants[i].types} :
                   i \in DOMAIN d.variants}

\* every base and every identifier of a referenced type is a known builtin,
\* struct, variant or alias
IdentifiersKnown(d) ==
    /\ \A t \in TypeRefs(d) : t.id \in _collect_defined(d)
    /\ \A i \in DOMAIN d.structs :
           d.structs[i].base # "" => d.structs[i].base \in _collect_defined(d)

\* C26: type-existence check under nested modifiers.  For every type name made
\* of an identifier and any sequence of "[]", "?" and "$" suffixes in any
\* order, _bare returns the identifier alone, so an alias target, field type or
\* variant arm whose identifier is a known builtin, struct, variant or alias
\* always passes the type-existence checks of validate_definition.
C26_BareStripsNestedModifiers ==
    Validated =>
        /\ \A t \in TypeRefs(defn) : _bare(t) = T0(t.id)
        /\ IdentifiersKnown(defn) => vres.err # "UndefinedTypeError"

----------------------------------------------------------------------------
(* The namespace while its types are used                                  *)

\* the published names, and per generated struct its fields and pipelines
PublishedTypes(modns) == {modns[i].k : i \in DOMAIN modns}
FieldsAndPipelines(modns) ==
    {<<modns[i].k, modns[i].v.fields, modns[i].v.pipelines>> :
        i \in {j \in DOMAIN modns : modns[j].v.kind = "struct"}}

\* the step leaves the namespace as it was
NamespaceKept ==
    /\ PublishedTypes(module') = PublishedTypes(module)
    /\ FieldsAndPipelines(module') = FieldsAndPipelines(module)
    /\ module' = module

\* the codec reads the pipelines that the build stored on the classes
StoredPipelines ==
    Built => \A n \in GenStructs :
                 /\ DictHas(module, Spelling(n))
                 /\ DictGet(module, Spelling(n)).pipelines = ENC_PIPELINES[n]

\* C27: the namespace is unchanged by use.  After the build step completes, no
\* call of encode, from_bytes, try_from or to_builtins on a generated type,
\* whether it succeeds or fails with a decode or conversion error, changes the
\* set of published types, a generated type's field list or a codec pipeline.
C27_NamespaceUnchangedByUse ==
    [](StoredPipelines) /\ [][Built => NamespaceKept]_vars

\* from_bytes has failed on a type of the built namespace
C27_Witness ==
    /\ Built
    /\ module # <<>>
    /\ pc = "rawdecoded"
    /\ decoded.err # ""

----------------------------------------------------------------------------
(* Integer leaves (meta.IntBase): try_from on ints, strings and byte        *)
(* strings, and encode of what it returns                                  *)

\* longest byte string and longest string handed to try_from
MaxLeafBytes == 2
MaxDigits == 3

IntClasses == {"uint8", "uint16", "int8"}
bits(cls) == IF cls = "uint16" THEN 16 ELSE 8
signed(cls) == cls = "int8"
_min(cls) == IF signed(cls) THEN 0 - Pow2(bits(cls) - 1) ELSE 0
_max(cls) == IF signed(cls) THEN Pow2(bits(cls) - 1) - 1 ELSE Pow2(bits(cls)) - 1

\* int.from_bytes(raw, byteorder='little', signed=sgn) over all of raw
int_from_bytes(raw, sgn) ==
    IF sgn /\ raw # <<>> /\ raw[Len(raw)] >= 128
    THEN IntFromBytes(raw) - Pow2(8 * Len(raw))
    ELSE IntFromBytes(raw)

\* int(s) of a string: an optional minus sign and one or more digits
Digits == <<"0", "1", "2", "3", "4", "5", "6", "7", "8", "9">>
IsDigit(ch) == \E i \in DOMAIN Digits : Digits[i] = ch
DigitValue(ch) == (CHOOSE i \in DOMAIN Digits : Digits[i] = ch) - 1
RECURSIVE DigitsValue(_)
DigitsValue(cs) ==
    IF cs = <<>> THEN 0 ELSE 10 * DigitsValue(SubSeq(cs, 1, Len(cs) - 1)) + DigitValue(cs[Len(cs)])
int_of_str(cs) ==
    LET body == IF cs # <<>> /\ cs[1] = "-" THEN Tail(cs) ELSE cs
    IN  IF body = <<>> \/ \E i \in DOMAIN body : ~IsDigit(body[i])
        THEN Fail("ValueError")
        ELSE Res("", IF body = cs THEN DigitsValue(body) ELSE 0 - DigitsValue(body), 0)

\* the objects handed to try_from
LeafInt(n) == [k |-> "int", n |-> n, s |-> <<>>]
LeafStr(cs) == [k |-> "str", n |-> 0, s |-> cs]
LeafBytes(raw) == [k |-> "bytes", n |-> 0, s |-> raw]
LeafInputs ==
    {LeafInt(n) : n \in {-129, -128, -1, 0, 127, 128, 255, 256, 65535, 65536}}
    \cup {LeafStr(cs) : cs \in SeqsUpTo({"-", "1", "3", "x"}, MaxDigits)}
    \cup {LeafBytes(raw) : raw \in SeqsUpTo({0, 1, 128, 255}, MaxLeafBytes)}

\* IntBase.from_bytes
IntBase_from_bytes(cls, raw) == Res("", int_from_bytes(raw, signed(cls)), 0)

\* IntBase.try_from
IntBase_try_from(cls, obj) ==
    IF obj.k = "bytes" THEN IntBase_from_bytes(cls, obj.s)
    ELSE LET num == IF obj.k = "int" THEN Res("", obj.n, 0) ELSE int_of_str(obj.s)
         IN  IF num.err # "" THEN num
             ELSE IF ~(_min(cls) <= num.val /\ num.val <= _max(cls)) THEN Fail("ValueError")
             ELSE Res("", num.val, 0)

\* IntBase.encode: int.to_bytes(length, 'little', signed) raises OverflowError
\* unless the value fits
IntBase_encode(cls, n) ==
    IF ~(_min(cls) <= n /\ n <= _max(cls)) THEN Fail("OverflowError")
    ELSE Res("", ToBytesLE(IF n < 0 THEN n + Pow2(bits(cls)) ELSE n, bits(cls) \div 8), 0)

InitLeaf ==
    /\ gtype \in IntClasses
    /\ builtins \in LeafInputs
    /\ pc = "leaf"
    /\ value = None /\ rawbuf = <<>> /\ encoded = <<>> /\ decoded = Unset
    /\ converted = Unset /\ packed = <<>>
    /\ defn = Schema(<<>>, <<>>, <<>>)
    /\ vres = Pending
    /\ HashIdle
    /\ BuildIdle

\* gtype.try_from(builtins)
LeafTryFrom ==
    /\ pc = "leaf"
    /\ converted' = IntBase_try_from(gtype, builtins)
    /\ pc' = "leaf_converted"
    /\ UNCHANGED <<defn, vres, gtype, value, rawbuf, encoded, decoded, builtins, packed, hashVars, buildVars>>

\* encode() of the value try_from returned
LeafEncode ==
    /\ pc = "leaf_converted"
    /\ converted.err = ""
    /\ decoded' = IntBase_encode(gtype, converted.val)
    /\ encoded' = IF decoded'.err = "" THEN decoded'.val ELSE <<>>
    /\ pc' = "leaf_encoded"
    /\ UNCHANGED <<defn, vres, gtype, value, rawbuf, builtins, converted, packed, hashVars, buildVars>>

NextLeaf == LeafTryFrom \/ LeafEncode

SpecLeaf == InitLeaf /\ [][NextLeaf]_vars

\* the integer an accepted kind of input denotes
Denoted(cls, obj) ==
    IF obj.k = "bytes" THEN Res("", int_from_bytes(obj.s, signed(cls)), 0)
    ELSE IF obj.k = "int" THEN Res("", obj.n, 0)
    ELSE int_of_str(obj.s)

InRange(cls, n) == _min(cls) <= n /\ n <= _max(cls)

\* C28: integer leaf range.  For every fixed-width integer type and every
\* input accepted by try_from (an int, a numeric string, a byte string of any
\* length), the resulting value lies in [_min, _max], so encode() of it yields
\* exactly bits/8 bytes; an input that denotes a value outside the range fails
\* with a conversion error.
C28_IntegerLeafRange ==
    /\ (pc = "leaf_converted" /\ converted.err = "") => InRange(gtype, converted.val)
    /\ pc = "leaf_encoded" => (decoded.err = "" /\ Len(encoded) = bits(gtype) \div 8)
    /\ (pc = "leaf_converted" /\ Denoted(gtype, builtins).err = ""
           /\ ~InRange(gtype, Denoted(gtype, builtins).val)) => converted.err # ""

----------------------------------------------------------------------------
(* Equality of generated struct instances: Struct.__eq__ of _struct.py and  *)
(* the __eq__ that structs.py puts on each class it generates              *)

BBool(x) == [n |-> IF x THEN 1 ELSE 0, k |-> "bbool", cls |-> [n |-> "", i |-> -1], items |-> <<>>]

\* cls.__struct_fields__
FieldNames(cls) == PipelineNames(ENC_PIPELINES[cls])

\* hasattr(obj, name) and getattr(obj, name) on a struct instance
HasAttr(obj, name) == \E k \in DOMAIN FieldNames(obj.cls.n) : FieldNames(obj.cls.n)[k] = name
GetAttr(obj, name) ==
    obj.items[CHOOSE k \in DOMAIN FieldNames(obj.cls.n) : FieldNames(obj.cls.n)[k] = name]

\* the _eq that gen_eq_for_cls(cls) returns: False only for a field that
\* neither object has and whose values differ
gen_eq_for_cls(cls, self, other) ==
    \A k \in DOMAIN FieldNames(cls) :
        LET name == FieldNames(cls)[k]
        IN  \/ HasAttr(self, name)
            \/ HasAttr(other, name)
            \/ PyEq(GetAttr(self, name), GetAttr(other, name))

\* the instances compared: every value of p, q and t, and the values of s
\* (whose base is p) with an empty list and no extension
EqValues ==
    StructValues("p") \cup StructValues("q") \cup StructValues("t")
    \cup {v \in StructValues("s") : v.items[3] = MkList(<<>>) /\ v.items[4] = None}

InitEq ==
    /\ value \in EqValues
    /\ decoded \in {Res("", b, 0) : b \in EqValues}
    /\ gtype = value.cls.n
    /\ pc = "eq"
    /\ rawbuf = <<>> /\ encoded = <<>> /\ builtins = BNone /\ converted = Unset /\ packed = <<>>
    /\ defn = CodecSchema
    /\ vres \in validate_definition(CodecSchema)
    /\ HashIdle
    /\ BuildIdle

\* value == decoded.val on classes built by _struct_ns.py
CompareStruct ==
    /\ pc = "eq"
    /\ builtins' = BBool(PyEq(value, decoded.val))
    /\ pc' = "compared"
    /\ UNCHANGED <<defn, vres, gtype, value, rawbuf, encoded, decoded, converted, packed, hashVars, buildVars>>

\* value == decoded.val on classes built by structs.py
CompareGenerated ==
    /\ pc = "eq"
    /\ builtins' = BBool(gen_eq_for_cls(gtype, value, decoded.val))
    /\ pc' = "compared_generated"
    /\ UNCHANGED <<defn, vres, gtype, value, rawbuf, encoded, decoded, converted, packed, hashVars, buildVars>>

NextEq == CompareStruct \/ CompareGenerated

SpecEq == InitEq /\ [][NextEq]_vars

\* b is an instance of a's type and each field of a equals that field of b
FieldwiseEqual(a, b) ==
    /\ IsSubclass(b.cls.n, a.cls.n, Len(CodecSchema.structs))
    /\ \A k \in DOMAIN a.items : PyEq(a.items[k], b.items[k])

\* C29: generated struct equality.  For two instances a and b of generated
\* types, a == b holds if and only if b is an instance of a's type and every
\* struct field of a equals the corresponding field of b; two instances that
\* differ in at least one field never compare equal.
C29_GeneratedStructEquality ==
    pc \in {"compared", "compared_generated"} =>
        /\ builtins.n = 1 <=> FieldwiseEqual(value, decoded.val)
        /\ (value.cls = decoded.val.cls /\ value.items # decoded.val.items) => builtins.n = 0

----------------------------------------------------------------------------
(* ABIView.from_file: the class that loads the definition                   *)

\* the objects passed as cls_alias: strings, None, classes and integers
StrArg(s) == [k |-> "str", s |-> s, n |-> 0]
NoneArg == [k |-> "none", s |-> "", n |-> 0]
ClassArg(name) == [k |-> "class", s |-> name, n |-> 0]
IntArg(n) == [k |-> "int", s |-> "", n |-> n]
ClsAliases ==
    {StrArg(s) : s \in {"std", "standard", "ship", "abi", ""}}
    \cup {NoneArg}
    \cup {ClassArg(c) : c \in {"ABI", "ShipABI", "dict"}}
    \cup {IntArg(0), IntArg(1)}

\* bool(obj), isinstance(obj, <class clsname>) and hasattr(obj, '__name__'):
\* a class object is an instance of `type`, not of itself
Truthy(obj) == obj.k = "class" \/ (obj.k = "int" /\ obj.n # 0)
IsInstance(obj, clsname) == obj.k = "instance" /\ obj.s = clsname
HasDunderName(obj) == obj.k = "class"

_solve_cls_alias(cls) ==
    IF cls.k = "str"
    THEN IF cls.s \in {"std", "standard"}
         THEN Res("", ClassArg("ShipABI"), 0)
         ELSE Res("", ClassArg("ABI"), 0)
    ELSE LET ret == IF Truthy(cls) THEN cls ELSE ClassArg("ABI")
         IN  IF ~(IsInstance(ret, "ABI") /\ IsInstance(ret, "ShipABI"))
             THEN IF ~Truthy(cls) \/ HasDunderName(cls)
                  THEN Fail("TypeError")
                  ELSE Fail("AttributeError")
             ELSE Res("", ret, 0)

\* Path(path).stem: the last component without its last suffix
Stem(path) ==
    LET dots == {i \in DOMAIN path : path[i] = "." /\ i > 1}
    IN  IF dots = {} THEN path
        ELSE SubSeq(path, 1, (CHOOSE i \in dots : \A j \in dots : j <= i) - 1)

\* str.title(): a letter after a letter is lower-cased, any other is upper-cased
title(cs) ==
    [i \in DOMAIN cs |->
        IF i > 1 /\ (IsLower(cs[i - 1]) \/ IsUpper(cs[i - 1])) THEN Lower(cs[i]) ELSE Upper(cs[i])]

Paths == {<<"a">>, <<"a", "b", ".", "p">>, <<"p", "a", ".", "b", ".", "p">>}
ViewNames == {<<>>, <<"V">>}

\* the arguments of one call of from_file, and whether `path` holds an ABI
FromFileArgs ==
    [cls_alias : ClsAliases, path : Paths, name : ViewNames, readable : BOOLEAN]

InitFromFile ==
    /\ value \in FromFileArgs
    /\ pc = "from_file"
    /\ gtype = "" /\ rawbuf = <<>> /\ encoded = <<>> /\ decoded = Unset
    /\ builtins = BNone /\ converted = Unset /\ packed = <<>>
    /\ defn = Schema(<<>>, <<>>, <<>>)
    /\ vres = Pending
    /\ HashIdle
    /\ BuildIdle

\* base_cls = _solve_cls_alias(cls_alias)
SolveClsAlias ==
    /\ pc = "from_file"
    /\ converted' = _solve_cls_alias(value.cls_alias)
    /\ pc' = IF converted'.err = "" THEN "solved" ELSE "raised"
    /\ UNCHANGED <<defn, vres, gtype, value, rawbuf, encoded, decoded, builtins, packed, hashVars, buildVars>>

\* definition = base_cls.from_file(path)
LoadDefinition ==
    /\ pc = "solved"
    /\ decoded' = IF value.readable
                  THEN Res("", [k |-> "definition", s |-> converted.val.s, n |-> 0], 0)
                  ELSE Fail("OSError")
    /\ pc' = IF value.readable THEN "loaded" ELSE "raised"
    /\ UNCHANGED <<defn, vres, gtype, value, rawbuf, encoded, builtins, converted, packed, hashVars, buildVars>>

\* return ABIViewMeta(qualname, (cls,), {}, definition=definition)
MakeView ==
    /\ pc = "loaded"
    /\ builtins' = [k |-> "view",
                    s |-> decoded.val.s,
                    n |-> 0,
                    qualname |-> IF value.name # <<>> THEN value.name
                                 ELSE title(Stem(value.path)) \o <<"A", "B", "I", "V", "i", "e", "w">>]
    /\ pc' = "returned"
    /\ UNCHANGED <<defn, vres, gtype, value, rawbuf, encoded, decoded, converted, packed, hashVars, buildVars>>

NextFromFile == SolveClsAlias \/ LoadDefinition \/ MakeView

SpecFromFile == InitFromFile /\ [][NextFromFile]_vars

\* the class the listed kinds of cls_alias are to select; "" for any other
Selected(cls) ==
    IF cls.k = "str" THEN (IF cls.s \in {"std", "standard"} THEN "ShipABI" ELSE "ABI")
    ELSE IF cls.k = "none" THEN "ABI"
    ELSE IF cls.k = "class" /\ cls.s \in {"ABI", "ShipABI"} THEN cls.s
    ELSE ""

\* C30: ABI class selection for ABIView.from_file.  'std' and 'standard'
\* select ShipABI, any other string selects ABI, an explicitly passed ABI or
\* ShipABI class selects that class, and None selects ABI; in all these cases
\* the selection succeeds, and a TypeError is raised only for an argument that
\* is none of these.
C30_ClassSelection ==
    (pc \in {"solved", "raised"} /\ decoded = Unset /\ Selected(value.cls_alias) # "") =>
        /\ converted.err = ""
        /\ converted.val = ClassArg(Selected(value.cls_alias))

====
